---- MODULE Spec2Model ----
(***************************************************************************)
(* Telemetry bridge daemon (backend/src/main.rs, backend/src/serial.rs)    *)
(* and sensor node firmware (sht20/src/main.rs).                           *)
(*                                                                         *)
(* Two state machines share this module:                                   *)
(*   - the bridge loop of main(): query sensor bucket, query setpoint      *)
(*     bucket, derive fan/pump, write back, publish, sleep;                *)
(*   - the serial monitor: start_monitoring's open/retry loop around       *)
(*     read_loop with its relay-status correlator.                         *)
(* SpecIngest adds the upload tasks spawned by the serial callback, and    *)
(* SpecCsv runs the two CSV extractors alone on bounded response bodies.   *)
(* SpecDevice is the sensor node's firmware (sht20/src/main.rs): WiFi      *)
(* setup, then the Modbus reading cycle with its retried upload.           *)
(*                                                                         *)
(* Conventions.  Option<T> is a sequence of length 0 (None) or 1 (Some).   *)
(* f64/f32 values are whole numbers.  Rust's 0-based indices are 1-based.  *)
(* A CSV body is the sequence of its lines, a line the sequence of its     *)
(* comma-separated columns.  A serial line is the sequence of its          *)
(* '|'-separated parts, a part the sequence of its ':'-separated pieces.   *)
(* On the sensor node a temperature or humidity is a whole number of       *)
(* tenths, a UART frame the sequence of its bytes.                         *)
(***************************************************************************)
EXTENDS Integers, Sequences, FiniteSets, TLC

VARIABLES
    bpc,            \* bridge loop: position inside the loop body of main()
    sensor_resp,    \* outcome of this iteration's get_last_data request
    dwsim_resp,     \* outcome of this iteration's get_dwsim_temperature request
    sensor_data,    \* LastRow of this iteration
    dwsim_data,     \* DwsimRow of this iteration
    payload,        \* serde_json::Map of this iteration
    writebacks,     \* write-back requests issued in this iteration
    published,      \* bodies handed to cli.publish in this iteration
    warned,         \* the "No data from InfluxDB" message was logged
    mqtt_requests,  \* requests waiting in the channel to the MQTT event loop
    spc,            \* serial monitor: position in start_monitoring
    relay_status,   \* read_loop local: RelayStatus
    pending_sensor_data, \* read_loop local: Option<SensorData>
    emitted,        \* every on_data invocation so far, in order
    rx,             \* lines read (Ok(n), n > 0) on the current connection
    conn_base,      \* Len(emitted) when the current connection was opened
    last_read,      \* kind of the most recent reader.read_line result
    ever_status,    \* flags of the most recent status line on any connection
    on_data,        \* the callback given to start_monitoring
    inflight,       \* records held by spawned upload tasks that have not finished
    store,          \* points written to the sensor bucket by finished uploads
    nlines,         \* lines read so far over all connections
    csv_body,       \* a response body handed to the two CSV extractors
    extracted,      \* what parse_influx_csv and parse_dwsim_csv returned for it
    dpc,            \* sht20 firmware: position in main / setup_wifi / read_sht20_sensor
    retry,          \* setup_wifi local: retry
    wifi_checks,    \* wifi.is_connected() calls made by the setup_wifi call
    wifi_result,    \* what setup_wifi() returned to main
    temperature_raw, \* read_sht20_sensor local: Option<u16>
    humidity_raw,   \* read_sht20_sensor local: Option<u16>
    cycle_log,      \* UART writes, UART reads and send_sensor_data calls of this reading cycle
    cycle_sleep,    \* the FreeRtos::delay_ms that ends this reading cycle, 0 before it
    attempt,        \* send_to_influxdb: the for loop's attempt
    attempts,       \* send_to_influxdb: what each try_influxdb_upload call met and returned
    delays,         \* send_to_influxdb: the FreeRtos::delay_ms calls made, in ms
    send_result     \* what send_to_influxdb returned

bridge_vars == <<bpc, sensor_resp, dwsim_resp, sensor_data, dwsim_data, payload, writebacks, published, warned, mqtt_requests>>

serial_vars == <<spc, relay_status, pending_sensor_data, emitted, rx, conn_base, last_read, ever_status, on_data, inflight, store, nlines>>

csv_vars == <<csv_body, extracted>>

device_vars == <<dpc, retry, wifi_checks, wifi_result, temperature_raw, humidity_raw, cycle_log, cycle_sleep, attempt, attempts, delays, send_result>>

vars == <<bridge_vars, serial_vars, csv_vars, device_vars>>

(***************************************************************************)
(* Option<T>                                                               *)
(***************************************************************************)
None == <<>>

Some(v) == <<v>>

IsSome(o) == Len(o) = 1

Unwrap(o) == o[1]

Last(s) == s[Len(s)]

MaxOf(S) == CHOOSE m \in S : \A x \in S : x <= m

(***************************************************************************)
(* str::parse::<f64>, str::trim on the column tokens of the model.         *)
(***************************************************************************)
F64Table == [t \in {"0", "1", "22", "24", "25", "26", "55", "59", "60", "65"} |-> CASE t = "0" -> 0 [] t = "1" -> 1 [] t = "22" -> 22 [] t = "24" -> 24 [] t = "25" -> 25 [] t = "26" -> 26 [] t = "55" -> 55 [] t = "59" -> 59 [] t = "60" -> 60 [] t = "65" -> 65]

ParseF64(tok) == IF tok \in DOMAIN F64Table THEN Some(F64Table[tok]) ELSE None

Trim(tok) == CASE tok = " 26 " -> "26" [] tok = " humidity" -> "humidity" [] OTHER -> tok

HashTokens == {"#", "#datatype", "#group", "#default"}

StartsWithHash(line) == Len(line) > 0 /\ line[1] \in HashTokens

Contains(cols, c) == \E i \in 1..Len(cols) : cols[i] = c

\* for (i, c) in cols.iter().enumerate() { if *c == name { idx = Some(i) } }
IndexOfLast(cols, c) == LET S == {i \in 1..Len(cols) : cols[i] = c} IN IF S = {} THEN None ELSE Some(MaxOf(S))

(***************************************************************************)
(* parse_influx_csv                                                        *)
(***************************************************************************)
LastRowDefault == [temp |-> None, hum |-> None, exhaust_fan_status |-> None, pump_status |-> None]

\* Mutant: the parsed value is stored in the slot whether or not it parsed.
InfluxRow_StoresUnparsed(out, cols, i_f, i_v) ==
    IF i_f <= Len(cols) /\ i_v <= Len(cols)
    THEN LET fname == Trim(cols[i_f])
             val == ParseF64(Trim(cols[i_v]))
         IN  CASE fname = "temperature" -> [out EXCEPT !.temp = val]
               [] fname = "humidity" -> [out EXCEPT !.hum = val]
               [] fname = "exhaust_fan_status" -> [out EXCEPT !.exhaust_fan_status = val]
               [] fname = "pump_status" -> [out EXCEPT !.pump_status = val]
               [] OTHER -> out
    ELSE out

InfluxRow(out, cols, i_f, i_v) ==
    IF i_f <= Len(cols) /\ i_v <= Len(cols)
    THEN LET fname == Trim(cols[i_f])
             val == ParseF64(Trim(cols[i_v]))
         IN  CASE fname = "temperature" /\ IsSome(val) -> [out EXCEPT !.temp = val]
               [] fname = "humidity" /\ IsSome(val) -> [out EXCEPT !.hum = val]
               [] fname = "exhaust_fan_status" /\ IsSome(val) -> [out EXCEPT !.exhaust_fan_status = val]
               [] fname = "pump_status" /\ IsSome(val) -> [out EXCEPT !.pump_status = val]
               [] OTHER -> out
    ELSE out

DwsimRowDefault == [temp |-> None]

DwsimRow(out, cols, i_f, i_v) ==
    IF i_f <= Len(cols) /\ i_v <= Len(cols)
    THEN LET fname == Trim(cols[i_f])
             val == ParseF64(Trim(cols[i_v]))
         IN  IF fname = "temperature_celsius" /\ IsSome(val) THEN [out EXCEPT !.temp = val] ELSE out
    ELSE out

\* Mutant: without a header the columns are taken at their usual positions.
ParserInit_AssumesLayout(out0) == [idx_field |-> Some(5), idx_value |-> Some(4), header_seen |-> TRUE, out |-> out0]

ParserInit(out0) == [idx_field |-> None, idx_value |-> None, header_seen |-> FALSE, out |-> out0]

\* Mutant: every line with a _field or _value column is taken as a header.
CsvLine_EveryHeaderCounts(st, line, kind) ==
    IF StartsWithHash(line) THEN st
    ELSE IF Contains(line, "_field") \/ Contains(line, "_value")
    THEN [st EXCEPT !.idx_field = IF IsSome(IndexOfLast(line, "_field")) THEN IndexOfLast(line, "_field") ELSE @,
                    !.idx_value = IF IsSome(IndexOfLast(line, "_value")) THEN IndexOfLast(line, "_value") ELSE @,
                    !.header_seen = TRUE]
    ELSE IF st.header_seen /\ IsSome(st.idx_field) /\ IsSome(st.idx_value)
    THEN [st EXCEPT !.out = IF kind = "influx"
                            THEN InfluxRow(@, line, Unwrap(st.idx_field), Unwrap(st.idx_value))
                            ELSE DwsimRow(@, line, Unwrap(st.idx_field), Unwrap(st.idx_value))]
    ELSE st

\* One iteration of `for line in csv.lines()`; kind selects the row handler.
CsvLine(st, line, kind) ==
    IF StartsWithHash(line) THEN st
    ELSE IF ~st.header_seen /\ (Contains(line, "_field") \/ Contains(line, "_value"))
    THEN [st EXCEPT !.idx_field = IF IsSome(IndexOfLast(line, "_field")) THEN IndexOfLast(line, "_field") ELSE @,
                    !.idx_value = IF IsSome(IndexOfLast(line, "_value")) THEN IndexOfLast(line, "_value") ELSE @,
                    !.header_seen = TRUE]
    ELSE IF st.header_seen /\ IsSome(st.idx_field) /\ IsSome(st.idx_value)
    THEN [st EXCEPT !.out = IF kind = "influx"
                            THEN InfluxRow(@, line, Unwrap(st.idx_field), Unwrap(st.idx_value))
                            ELSE DwsimRow(@, line, Unwrap(st.idx_field), Unwrap(st.idx_value))]
    ELSE st

RECURSIVE CsvLines(_, _, _, _)
CsvLines(st, lines, i, kind) ==
    IF i > Len(lines) THEN st ELSE CsvLines(CsvLine(st, lines[i], kind), lines, i + 1, kind)

parse_influx_csv(csv) == CsvLines(ParserInit(LastRowDefault), csv, 1, "influx").out

parse_dwsim_csv(csv) == CsvLines(ParserInit(DwsimRowDefault), csv, 1, "dwsim").out

(***************************************************************************)
(* Responses of the time-series store that the bridge loop is run against. *)
(***************************************************************************)
CsvHeader == <<"", "result", "table", "_value", "_field">>

CsvRow(field, value) == <<"", "_result", "0", value, field>>

CsvRows(field, tokens) == {<<>>} \cup {<<CsvRow(field, v)>> : v \in tokens}

SensorBodies ==
    {<<>>, <<<<"#datatype", "string", "long", "double", "string">>>>, <<CsvRow("temperature", "26")>>}
    \cup {<<<<"#group", "false">>, CsvHeader>> \o t \o h \o p :
            t \in CsvRows("temperature", {"22", "26", "abc"}),
            h \in CsvRows("humidity", {"55", "59", "60", "65"}),
            p \in CsvRows("pump_status", {"1"})}

DwsimBodies ==
    {<<>>, <<<<"">>>>}
    \cup {<<CsvHeader>> \o t : t \in CsvRows("temperature_celsius", {"24", "25", "26", ""})}

\* send().await? fails ("transport"), or the store answers with a status and a body.
SensorResponses == {[kind |-> "transport", body |-> <<>>], [kind |-> "non2xx", body |-> <<>>]} \cup {[kind |-> "ok", body |-> b] : b \in SensorBodies}

DwsimResponses == {[kind |-> "transport", body |-> <<>>], [kind |-> "non2xx", body |-> <<>>]} \cup {[kind |-> "ok", body |-> b] : b \in DwsimBodies}

WriteOutcomes == {"ok", "non2xx", "transport"}

\* post_influx: Err on a transport error and on a non-2xx status, else Ok(body).
post_influx(resp) == IF resp.kind = "ok" THEN Some(resp.body) ELSE None

\* get_last_data: `post_influx(..).await?` then parse_influx_csv.
get_last_data(resp) == IF IsSome(post_influx(resp)) THEN Some(parse_influx_csv(Unwrap(post_influx(resp)))) ELSE None

\* get_dwsim_temperature, final query: `post_influx(..).await?` then parse_dwsim_csv.
get_dwsim_temperature(resp) == IF IsSome(post_influx(resp)) THEN Some(parse_dwsim_csv(Unwrap(post_influx(resp)))) ELSE None

(***************************************************************************)
(* Bridge loop of main(): one action per await point or block of the body. *)
(***************************************************************************)
PumpThreshold == 60

Insert(m, k, v) == (k :> v) @@ m

\* Mutant: the fan is also on when the two temperatures are equal.
FanOn_OnWhenEqual(sensor_temp, setpoint_temp) == IF sensor_temp >= setpoint_temp THEN 1 ELSE 0

\* let fan_on = if sensor_temp > setpoint_temp { 1 } else { 0 };
FanOn(sensor_temp, setpoint_temp) == IF sensor_temp > setpoint_temp THEN 1 ELSE 0

\* Mutant: the pump is also on at the threshold itself.
PumpOn_OnAtThreshold(humidity) == IF humidity <= PumpThreshold THEN 1 ELSE 0

\* let pump_on = if humidity < 60.0 { 1 } else { 0 };
PumpOn(humidity) == IF humidity < PumpThreshold THEN 1 ELSE 0

\* `p as i32` on the whole-number values of the model.
AsI32(v) == v

\* Mutant: the humidity is used for the pump signal but not put in the payload.
RawFields_NoHumidity(sd, dd) ==
    LET p1 == IF IsSome(sd.temp) THEN Insert(<<>>, "sht20_temperature", Unwrap(sd.temp)) ELSE <<>>
        p3 == IF IsSome(sd.pump_status) THEN Insert(p1, "pump_status", AsI32(Unwrap(sd.pump_status))) ELSE p1
    IN  IF IsSome(dd.temp) THEN Insert(p3, "dwsim_temperature", Unwrap(dd.temp)) ELSE p3

\* Mutant: the setpoint is put in the payload only next to a sensor temperature.
RawFields_SetpointNeedsSensor(sd, dd) ==
    LET p1 == IF IsSome(sd.temp) THEN Insert(<<>>, "sht20_temperature", Unwrap(sd.temp)) ELSE <<>>
        p2 == IF IsSome(sd.hum) THEN Insert(p1, "sht20_humidity", Unwrap(sd.hum)) ELSE p1
        p3 == IF IsSome(sd.pump_status) THEN Insert(p2, "pump_status", AsI32(Unwrap(sd.pump_status))) ELSE p2
    IN  IF IsSome(dd.temp) /\ IsSome(sd.temp) THEN Insert(p3, "dwsim_temperature", Unwrap(dd.temp)) ELSE p3

\* The four `if let Some(..) = .. { payload.insert(..) }` of the loop body.
RawFields(sd, dd) ==
    LET p1 == IF IsSome(sd.temp) THEN Insert(<<>>, "sht20_temperature", Unwrap(sd.temp)) ELSE <<>>
        p2 == IF IsSome(sd.hum) THEN Insert(p1, "sht20_humidity", Unwrap(sd.hum)) ELSE p1
        p3 == IF IsSome(sd.pump_status) THEN Insert(p2, "pump_status", AsI32(Unwrap(sd.pump_status))) ELSE p2
    IN  IF IsSome(dd.temp) THEN Insert(p3, "dwsim_temperature", Unwrap(dd.temp)) ELSE p3

\* write_fan_status_to_influx / write_pump_status_to_influx: `send().await?`
\* returns Err on a transport error; a non-2xx status is logged and Ok(()) returned.
WriteResult(outcome) == IF outcome = "transport" THEN "err" ELSE "ok"

\* Mutant: the write-back's error is propagated with `?` and ends main.
AfterWriteBack_Propagates(result, next) == IF result = "err" THEN "exited" ELSE next

\* if let Err(e) = write_.._status_to_influx(..).await { error!(..) }
AfterWriteBack(result, next) == next

\* Mutant: the payload is published whether or not it has fields.
ShouldPublish_Always(p) == TRUE

\* if payload.is_empty() { .. } else { publish }
ShouldPublish(p) == p # <<>>

\* Mutant: the map is created once, before the loop, and reused.
FreshPayload_Reused(old) == old

\* let mut payload = serde_json::Map::new();  (the previous map was dropped
\* at the end of its iteration)
FreshPayload(old) == <<>>

\* debug_csv.trim().is_empty() || debug_csv.lines().count() <= 1
DebugFoundNothing(body) == (\A i \in 1..Len(body) : body[i] = <<"">>) \/ Len(body) <= 1

IterationLocals ==
    /\ sensor_resp = "none"
    /\ dwsim_resp = "none"
    /\ sensor_data = LastRowDefault
    /\ dwsim_data = DwsimRowDefault
    /\ payload = <<>>
    /\ writebacks = <<>>
    /\ published = <<>>
    /\ warned = FALSE

\* Mutant: the setpoint query is not awaited before the payload is built.
QuerySensor_SkipsSetpoint ==
    /\ bpc = "query_sensor"
    /\ \E resp \in SensorResponses :
        /\ sensor_resp' = resp.kind
        /\ IF IsSome(get_last_data(resp))
           THEN sensor_data' = Unwrap(get_last_data(resp)) /\ bpc' = "build"
           ELSE sensor_data' = sensor_data /\ bpc' = "exited"
    /\ UNCHANGED <<dwsim_resp, dwsim_data, payload, writebacks, published, warned, mqtt_requests, serial_vars, csv_vars, device_vars>>

\* let sensor_data = get_last_data(..).await?;
QuerySensor ==
    /\ bpc = "query_sensor"
    /\ \E resp \in SensorResponses :
        /\ sensor_resp' = resp.kind
        /\ IF IsSome(get_last_data(resp))
           THEN sensor_data' = Unwrap(get_last_data(resp)) /\ bpc' = "dwsim_debug"
           ELSE sensor_data' = sensor_data /\ bpc' = "exited"
    /\ UNCHANGED <<dwsim_resp, dwsim_data, payload, writebacks, published, warned, mqtt_requests, serial_vars, csv_vars, device_vars>>

\* get_dwsim_temperature: the debug query; its failure is ignored (if let Ok).
DwsimDebugQuery ==
    /\ bpc = "dwsim_debug"
    /\ \E resp \in DwsimResponses :
        bpc' = IF IsSome(post_influx(resp)) /\ DebugFoundNothing(Unwrap(post_influx(resp)))
               THEN "dwsim_meas" ELSE "query_dwsim"
    /\ UNCHANGED <<sensor_resp, dwsim_resp, sensor_data, dwsim_data, payload, writebacks, published, warned, mqtt_requests, serial_vars, csv_vars, device_vars>>

\* get_dwsim_temperature: the "which measurements exist" query; result only logged.
DwsimMeasQuery ==
    /\ bpc = "dwsim_meas"
    /\ \E resp \in DwsimResponses : bpc' = "query_dwsim"
    /\ UNCHANGED <<sensor_resp, dwsim_resp, sensor_data, dwsim_data, payload, writebacks, published, warned, mqtt_requests, serial_vars, csv_vars, device_vars>>

\* let dwsim_data = get_dwsim_temperature(..).await?;  (the final query)
QueryDwsim ==
    /\ bpc = "query_dwsim"
    /\ \E resp \in DwsimResponses :
        /\ dwsim_resp' = resp.kind
        /\ IF IsSome(get_dwsim_temperature(resp))
           THEN dwsim_data' = Unwrap(get_dwsim_temperature(resp)) /\ bpc' = "build"
           ELSE dwsim_data' = dwsim_data /\ bpc' = "exited"
    /\ UNCHANGED <<sensor_resp, sensor_data, payload, writebacks, published, warned, mqtt_requests, serial_vars, csv_vars, device_vars>>

\* The four inserts go into the map created at the top of this iteration.
BuildPayload ==
    /\ bpc = "build"
    /\ payload' = RawFields(sensor_data, dwsim_data) @@ payload
    /\ bpc' = "derive_fan"
    /\ UNCHANGED <<sensor_resp, dwsim_resp, sensor_data, dwsim_data, writebacks, published, warned, mqtt_requests, serial_vars, csv_vars, device_vars>>

\* if let (Some(sensor_temp), Some(setpoint_temp)) = .. { .. write_fan_status_to_influx(..).await .. }
DeriveFan ==
    /\ bpc = "derive_fan"
    /\ IF IsSome(sensor_data.temp) /\ IsSome(dwsim_data.temp)
       THEN LET sensor_temp == Unwrap(sensor_data.temp)
                setpoint_temp == Unwrap(dwsim_data.temp)
                fan_on == FanOn(sensor_temp, setpoint_temp)
            IN  /\ payload' = Insert(Insert(payload, "exhaust_fan_status", fan_on), "dwsim_temperature_setpoint", setpoint_temp)
                /\ \E outcome \in WriteOutcomes :
                     /\ writebacks' = Append(writebacks, [field |-> "exhaust_fan_status", value |-> fan_on, outcome |-> outcome])
                     /\ bpc' = AfterWriteBack(WriteResult(outcome), "derive_pump")
       ELSE UNCHANGED <<payload, writebacks>> /\ bpc' = "derive_pump"
    /\ UNCHANGED <<sensor_resp, dwsim_resp, sensor_data, dwsim_data, published, warned, mqtt_requests, serial_vars, csv_vars, device_vars>>

\* if let Some(humidity) = sensor_data.hum { .. write_pump_status_to_influx(..).await .. }
DerivePump ==
    /\ bpc = "derive_pump"
    /\ IF IsSome(sensor_data.hum)
       THEN LET humidity == Unwrap(sensor_data.hum)
                pump_on == PumpOn(humidity)
            IN  /\ payload' = Insert(payload, "pump_calculated_status", pump_on)
                /\ \E outcome \in WriteOutcomes :
                     /\ writebacks' = Append(writebacks, [field |-> "pump_calculated_status", value |-> pump_on, outcome |-> outcome])
                     /\ bpc' = AfterWriteBack(WriteResult(outcome), "publish")
       ELSE UNCHANGED <<payload, writebacks>> /\ bpc' = "publish"
    /\ UNCHANGED <<sensor_resp, dwsim_resp, sensor_data, dwsim_data, published, warned, mqtt_requests, serial_vars, csv_vars, device_vars>>

\* MqttClient::new(mqtt, 10): capacity of the request channel.
MqttCap == 10

\* cli.publish sends the request on the bounded channel with a blocking
\* send: the call returns once the channel has taken the request.
CanSend(n) == n < MqttCap

\* if payload.is_empty() { error!(..) } else { cli.publish(..) }
\* The event-loop thread holds the receiving end for as long as main runs,
\* so the send does not fail; it waits while the channel is full.
Publish ==
    /\ bpc = "publish"
    /\ IF ~ShouldPublish(payload)
       THEN warned' = TRUE /\ published' = published /\ mqtt_requests' = mqtt_requests
       ELSE /\ CanSend(mqtt_requests)
            /\ published' = Append(published, [body |-> payload, ok |-> TRUE])
            /\ mqtt_requests' = mqtt_requests + 1
            /\ warned' = warned
    /\ bpc' = "sleep"
    /\ UNCHANGED <<sensor_resp, dwsim_resp, sensor_data, dwsim_data, payload, writebacks, serial_vars, csv_vars, device_vars>>

\* tokio::time::sleep(10 s).await; the next iteration starts with fresh locals.
Sleep ==
    /\ bpc = "sleep"
    /\ bpc' = "query_sensor"
    /\ sensor_resp' = "none"
    /\ dwsim_resp' = "none"
    /\ sensor_data' = LastRowDefault
    /\ dwsim_data' = DwsimRowDefault
    /\ payload' = FreshPayload(payload)
    /\ writebacks' = <<>>
    /\ published' = <<>>
    /\ warned' = FALSE
    /\ UNCHANGED <<mqtt_requests, serial_vars, csv_vars, device_vars>>

\* The event-loop thread (for ev in conn.iter()): while it has a connection
\* to the broker it takes the next request off the channel.  With the broker
\* unreachable, poll() only fails to connect and the requests stay queued.
MqttEventLoop ==
    /\ mqtt_requests > 0
    /\ mqtt_requests' = mqtt_requests - 1
    /\ UNCHANGED <<bpc, sensor_resp, dwsim_resp, sensor_data, dwsim_data, payload, writebacks, published, warned, serial_vars, csv_vars, device_vars>>

NextBridge == QuerySensor \/ DwsimDebugQuery \/ DwsimMeasQuery \/ QueryDwsim \/ BuildPayload \/ DeriveFan \/ DerivePump \/ Publish \/ Sleep \/ MqttEventLoop

(***************************************************************************)
(* Serial line protocol: parse_sensor_data, parse_relay_status.            *)
(***************************************************************************)
MaxLines == 3

U64Table == [t \in {"100", "200", "26"} |-> CASE t = "100" -> 100 [] t = "200" -> 200 [] t = "26" -> 26]

F32Table == [t \in {"26", "26.0", "27", "55", "60", "100"} |-> CASE t = "26" -> 26 [] t = "26.0" -> 26 [] t = "27" -> 27 [] t = "55" -> 55 [] t = "60" -> 60 [] t = "100" -> 100]

\* str::parse::<u64> / str::parse::<f32> of one '|'-separated part.
ParseU64(part) == IF Len(part) = 1 /\ part[1] \in DOMAIN U64Table THEN Some(U64Table[part[1]]) ELSE None

ParseF32(part) == IF Len(part) = 1 /\ part[1] \in DOMAIN F32Table THEN Some(F32Table[part[1]]) ELSE None

\* line.strip_prefix("<tag>|") followed by split('|').
StripTag(line, tag) == IF Len(line) >= 2 /\ line[1] = <<tag>> THEN Some(Tail(line)) ELSE None

\* Mutant: the token is taken after the colon whatever the name before it.
StripName_AnyName(part, name) == IF Len(part) >= 2 THEN Tail(part) ELSE <<"">>

\* part.strip_prefix("<name>:").unwrap_or("")
StripName(part, name) == IF Len(part) >= 2 /\ part[1] = name THEN Tail(part) ELSE <<"">>

\* Mutant: the second and third parts are read in the other order.
parse_sensor_data_Swapped(line) ==
    LET stripped == StripTag(line, "SENSOR_DATA")
    IN  IF IsSome(stripped) /\ Len(Unwrap(stripped)) = 3
        THEN LET parts == Unwrap(stripped)
                 timestamp == ParseU64(parts[1])
                 temperature == ParseF32(parts[3])
                 humidity == ParseF32(parts[2])
             IN  IF IsSome(timestamp) /\ IsSome(temperature) /\ IsSome(humidity)
                 THEN Some([timestamp |-> Unwrap(timestamp), temperature |-> Unwrap(temperature), humidity |-> Unwrap(humidity), motor_status |-> None, pump_status |-> None])
                 ELSE None
        ELSE None

parse_sensor_data(line) ==
    LET stripped == StripTag(line, "SENSOR_DATA")
    IN  IF IsSome(stripped) /\ Len(Unwrap(stripped)) = 3
        THEN LET parts == Unwrap(stripped)
                 timestamp == ParseU64(parts[1])
                 temperature == ParseF32(parts[2])
                 humidity == ParseF32(parts[3])
             IN  IF IsSome(timestamp) /\ IsSome(temperature) /\ IsSome(humidity)
                 THEN Some([timestamp |-> Unwrap(timestamp), temperature |-> Unwrap(temperature), humidity |-> Unwrap(humidity), motor_status |-> None, pump_status |-> None])
                 ELSE None
        ELSE None

parse_relay_status(line) ==
    LET stripped == StripTag(line, "RELAY_STATUS")
    IN  IF IsSome(stripped) /\ Len(Unwrap(stripped)) = 2
        THEN LET parts == Unwrap(stripped)
                 motor_part == StripName(parts[1], "motor")
                 pump_part == StripName(parts[2], "pump")
             IN  Some(<<motor_part = <<"ON">>, pump_part = <<"ON">>>>)
        ELSE None

\* Lines the device (or line noise) puts on the wire.
SensorLine(t, x, y) == <<<<"SENSOR_DATA">>, <<t>>, <<x>>, <<y>>>>

StatusLine(m, p) == <<<<"RELAY_STATUS">>, <<"motor", m>>, <<"pump", p>>>>

SerialLines ==
    {SensorLine("100", "26", "55"), SensorLine("200", "27", "60")}
    \cup {StatusLine(m, p) : m \in {"ON", "OFF"}, p \in {"ON", "OFF"}}
    \cup {<<<<"SENSOR_DATA">>, <<"100">>, <<"26">>>>,
          SensorLine("abc", "26", "55"),
          <<<<"RELAY_STATUS">>, <<"fan", "ON">>, <<"pump", "on">>>>,
          StatusLine("", "ON"),
          <<<<"RELAY_STATUS">>, <<"motor", "ON">>>>,
          <<<<"Guru Meditation Error">>>>,
          <<<<"">>>>}

(***************************************************************************)
(* read_loop's correlator.                                                 *)
(***************************************************************************)
RelayStatusDefault == [motor |-> None, pump |-> None]

\* Mutant: the parsed flags are logged but never stored.
UpdateRelay_Dropped(rs, flags) == rs

\* relay_status.motor = Some(motor); relay_status.pump = Some(pump);
UpdateRelay(rs, flags) == [motor |-> Some(flags[1]), pump |-> Some(flags[2])]

\* sensor_data.motor_status = relay_status.motor; sensor_data.pump_status = relay_status.pump;
AttachStatus(d, rs) == [d EXCEPT !.motor_status = rs.motor, !.pump_status = rs.pump]

\* Mutant: the slot is read by reference (as_ref) instead of take().
TakePending_Keep(p) == p

\* What pending_sensor_data.take() leaves in the slot.
TakePending(p) == None

\* Mutant: the pending reading is re-sent as stored, without the refreshed flags.
EmitOnStatus_Stale(p, rs) == IF IsSome(p) THEN <<Unwrap(p)>> ELSE <<>>

\* if let Some(mut sensor_data) = pending_sensor_data.take() { ..; on_data(sensor_data) }
EmitOnStatus(p, rs) == IF IsSome(p) THEN <<AttachStatus(Unwrap(p), rs)>> ELSE <<>>

\* Mutant: a reading is stored only when the slot is empty (get_or_insert).
StorePending_KeepFirst(p, d) == IF IsSome(p) THEN p ELSE Some(d)

\* pending_sensor_data = Some(sensor_data.clone());
StorePending(p, d) == Some(d)

\* Mutant: the reading is only stored, and sent when a status line arrives.
EmitOnSensor_Hold(d) == <<>>

\* Mutant: a freshly parsed reading is sent twice.
EmitOnSensor_Twice(d) == <<d, d>>

\* on_data(sensor_data) for a freshly parsed reading.
EmitOnSensor(d) == <<d>>

\* Mutant: a line that is no status line discards the pending reading.
OnRelayLine_DropsPending(c, line) ==
    LET st == parse_relay_status(line)
    IN  IF IsSome(st)
        THEN LET rs == UpdateRelay(c.relay_status, Unwrap(st))
             IN  [relay_status |-> rs, pending |-> TakePending(c.pending), out |-> c.out \o EmitOnStatus(c.pending, rs)]
        ELSE [c EXCEPT !.pending = None]

\* The body of the Ok(_) arm for one trimmed line: c is [relay_status, pending, out].
OnRelayLine(c, line) ==
    LET st == parse_relay_status(line)
    IN  IF IsSome(st)
        THEN LET rs == UpdateRelay(c.relay_status, Unwrap(st))
             IN  [relay_status |-> rs, pending |-> TakePending(c.pending), out |-> c.out \o EmitOnStatus(c.pending, rs)]
        ELSE c

\* Mutant: the known status is consumed by the reading it was attached to.
OnSensorLine_ConsumesStatus(c, line) ==
    LET sd == parse_sensor_data(line)
    IN  IF IsSome(sd)
        THEN LET d == AttachStatus(Unwrap(sd), c.relay_status)
             IN  [relay_status |-> RelayStatusDefault, pending |-> StorePending(c.pending, d), out |-> c.out \o EmitOnSensor(d)]
        ELSE c

OnSensorLine(c, line) ==
    LET sd == parse_sensor_data(line)
    IN  IF IsSome(sd)
        THEN LET d == AttachStatus(Unwrap(sd), c.relay_status)
             IN  [relay_status |-> c.relay_status, pending |-> StorePending(c.pending, d), out |-> c.out \o EmitOnSensor(d)]
        ELSE c

Correlate(rs, pending, line) == OnSensorLine(OnRelayLine([relay_status |-> rs, pending |-> pending, out |-> <<>>], line), line)

(***************************************************************************)
(* start_monitoring and read_loop.                                         *)
(***************************************************************************)
\* serialport::new(..).open() succeeds; read_loop starts with fresh locals.
OpenOk ==
    /\ spc = "open"
    /\ spc' = "reading"
    /\ relay_status' = RelayStatusDefault
    /\ pending_sensor_data' = None
    /\ rx' = <<>>
    /\ conn_base' = Len(emitted)
    /\ last_read' = "none"
    /\ UNCHANGED <<emitted, ever_status, on_data, inflight, store, nlines, bridge_vars, csv_vars, device_vars>>

\* Mutant: a failed open is propagated with `?` and ends start_monitoring.
OpenFail_Returns ==
    /\ spc = "open"
    /\ spc' = "returned"
    /\ UNCHANGED <<relay_status, pending_sensor_data, emitted, rx, conn_base, last_read, ever_status, on_data, inflight, store, nlines, bridge_vars, csv_vars, device_vars>>

\* open() fails: logged, then the common retry path.
OpenFail ==
    /\ spc = "open"
    /\ spc' = "retry_wait"
    /\ UNCHANGED <<relay_status, pending_sensor_data, emitted, rx, conn_base, last_read, ever_status, on_data, inflight, store, nlines, bridge_vars, csv_vars, device_vars>>

\* warn!("Serial connection lost. Retrying in 5 seconds..."); sleep(5 s)
RetrySleep ==
    /\ spc = "retry_wait"
    /\ spc' = "open"
    /\ UNCHANGED <<relay_status, pending_sensor_data, emitted, rx, conn_base, last_read, ever_status, on_data, inflight, store, nlines, bridge_vars, csv_vars, device_vars>>

\* Ok(0) => { sleep(100 ms); continue; }
ReadZero ==
    /\ spc = "reading"
    /\ last_read' = "zero"
    /\ UNCHANGED <<spc, relay_status, pending_sensor_data, emitted, rx, conn_base, ever_status, on_data, inflight, store, nlines, bridge_vars, csv_vars, device_vars>>

(***************************************************************************)
(* The callback.  main() passes a closure that spawns one upload task per  *)
(* record and returns Ok(()); start_monitoring accepts any FnMut, so the   *)
(* other callback considered is one whose every invocation returns Err.    *)
(***************************************************************************)
Callbacks == {"upload", "failing"}

\* The value the callback returns to read_loop.
OnDataResult(cb) == IF cb = "upload" THEN "ok" ELSE "err"

\* tokio::spawn(async move { write_sensor_to_influx(&http_clone, &data).await .. })
SpawnUpload(cb, tasks, out) == IF cb = "upload" THEN tasks \o out ELSE tasks

\* Mutant: the closure awaits the upload (block_on) before it returns.
OnDataReturns_AfterUpload(tasks) == tasks = <<>>

\* The closure returns right after tokio::spawn, whatever tasks are outstanding.
OnDataReturns(tasks) == TRUE

\* Mutant: the callback's error is propagated with `?` and ends read_loop.
AfterOnData_Propagates(result) == IF result = "err" THEN "retry_wait" ELSE "reading"

\* if let Err(e) = on_data(sensor_data) { error!(..) }: the loop goes on.
AfterOnData(result) == "reading"

\* Ok(_) => { parse relay status, then parse sensor data }
ReadLine ==
    /\ spc = "reading"
    /\ nlines < MaxLines
    /\ OnDataReturns(inflight)
    /\ \E line \in SerialLines :
        LET c == Correlate(relay_status, pending_sensor_data, line)
        IN  /\ relay_status' = c.relay_status
            /\ pending_sensor_data' = c.pending
            /\ emitted' = emitted \o c.out
            /\ inflight' = SpawnUpload(on_data, inflight, c.out)
            /\ spc' = IF c.out = <<>> THEN "reading" ELSE AfterOnData(OnDataResult(on_data))
            /\ rx' = Append(rx, line)
            /\ ever_status' = IF IsSome(parse_relay_status(line)) THEN parse_relay_status(line) ELSE ever_status
    /\ last_read' = "line"
    /\ nlines' = nlines + 1
    /\ UNCHANGED <<conn_base, on_data, store, bridge_vars, csv_vars, device_vars>>

\* Err(e) => return Err(..): the port's read timeout (15 s) elapsed, or any
\* other I/O error.  read_loop returns, the port is dropped, and
\* start_monitoring falls through to the retry path.
ReadErr ==
    /\ spc = "reading"
    /\ \E kind \in {"timeout", "error"} : last_read' = kind
    /\ spc' = "retry_wait"
    /\ UNCHANGED <<relay_status, pending_sensor_data, emitted, rx, conn_base, ever_status, on_data, inflight, store, nlines, bridge_vars, csv_vars, device_vars>>

NextSerial == OpenOk \/ OpenFail \/ RetrySleep \/ ReadZero \/ ReadLine \/ ReadErr

(***************************************************************************)
(* write_sensor_to_influx, run by the spawned upload tasks.                *)
(***************************************************************************)
RemoveAt(q, i) == SubSeq(q, 1, i - 1) \o SubSeq(q, i + 1, Len(q))

\* The fields of the line-protocol point: temperature, humidity and, only
\* when the pump flag is known, pump_status (motor_status is not written).
SensorPoint(data) == [temperature |-> data.temperature, humidity |-> data.humidity, pump_status |-> IF IsSome(data.pump_status) THEN Some(IF Unwrap(data.pump_status) THEN 1 ELSE 0) ELSE None]

\* One spawned task runs to completion; tasks are independent, so any of
\* the outstanding ones may be the next to finish.  A transport error is
\* returned and logged by the task, a non-2xx status is logged inside.
UploadStep ==
    /\ inflight # <<>>
    /\ \E i \in 1..Len(inflight), outcome \in WriteOutcomes :
        /\ inflight' = RemoveAt(inflight, i)
        /\ store' = IF outcome = "ok" THEN Append(store, SensorPoint(inflight[i])) ELSE store
    /\ UNCHANGED <<spc, relay_status, pending_sensor_data, emitted, rx, conn_base, last_read, ever_status, on_data, nlines, bridge_vars, csv_vars, device_vars>>

NextIngest == NextSerial \/ UploadStep

(***************************************************************************)
(* Specifications.                                                         *)
(***************************************************************************)
InitDaemon ==
    /\ bpc = "query_sensor"
    /\ IterationLocals
    /\ mqtt_requests = 0
    /\ spc = "open"
    /\ relay_status = RelayStatusDefault
    /\ pending_sensor_data = None
    /\ emitted = <<>>
    /\ rx = <<>>
    /\ conn_base = 0
    /\ last_read = "none"
    /\ ever_status = None
    /\ on_data \in Callbacks
    /\ inflight = <<>>
    /\ store = <<>>
    /\ nlines = 0

NotExtracted == [influx |-> None, dwsim |-> None]

\* The sht20 firmware at the top of its main(), nothing called yet.
DeviceBoot ==
    /\ dpc = "setup_wifi"
    /\ retry = 0
    /\ wifi_checks = 0
    /\ wifi_result = None
    /\ temperature_raw = None
    /\ humidity_raw = None
    /\ cycle_log = <<>>
    /\ cycle_sleep = 0
    /\ attempt = 1
    /\ attempts = <<>>
    /\ delays = <<>>
    /\ send_result = None

Init ==
    /\ InitDaemon
    /\ csv_body = <<>>
    /\ extracted = NotExtracted
    /\ DeviceBoot

SpecBridge == Init /\ [][NextBridge]_vars

SpecSerial == Init /\ [][NextSerial]_vars

\* std::thread::sleep(5 s) returns, and open() returns (Ok or Err).
SerialFairness == WF_vars(RetrySleep) /\ WF_vars(OpenOk \/ OpenFail)

SpecSerialFair == SpecSerial /\ SerialFairness

SpecIngest == Init /\ [][NextIngest]_vars

(***************************************************************************)
(* The CSV extractors on their own: parse_influx_csv and parse_dwsim_csv   *)
(* applied to every body of up to MaxCsvLines lines over CsvAlphabet.      *)
(***************************************************************************)
MaxCsvLines == 3

\* A header with the field column before the value column, and headers
\* that lack one of the two.
CsvHeaderFieldFirst == <<"", "result", "table", "_field", "_value">>

CsvHeaderNoValue == <<"", "result", "table", "_field">>

CsvHeaderNoField == <<"", "result", "table", "_value">>

CsvHeaders == {CsvHeader, CsvHeaderFieldFirst, CsvHeaderNoValue, CsvHeaderNoField}

\* A data row laid out for CsvHeaderFieldFirst.
CsvRowFieldFirst(field, value) == <<"", "_result", "0", field, value>>

CsvAlphabet ==
    CsvHeaders
    \cup {<<"#datatype", "string", "long", "double", "string">>, <<"">>, <<"", "_result">>}
    \cup {CsvRow("temperature", "22"), CsvRow("temperature", "26"), CsvRow("temperature", "abc"),
          CsvRow("humidity", "55"), CsvRow(" humidity", " 26 "), CsvRow("pump_status", "1"),
          CsvRow("pressure", "26"), CsvRow("temperature_celsius", "24"),
          CsvRowFieldFirst("temperature", "26")}

RECURSIVE SeqsUpTo(_, _)
SeqsUpTo(S, n) == IF n = 0 THEN {<<>>} ELSE SeqsUpTo(S, n - 1) \cup {Append(b, l) : b \in SeqsUpTo(S, n - 1), l \in S}

CsvInputs == SeqsUpTo(CsvAlphabet, MaxCsvLines)

InitCsv ==
    /\ InitDaemon
    /\ on_data = "upload"
    /\ csv_body \in CsvInputs
    /\ extracted = NotExtracted
    /\ DeviceBoot

ExtractInflux ==
    /\ extracted.influx = None
    /\ extracted' = [extracted EXCEPT !.influx = Some(parse_influx_csv(csv_body))]
    /\ UNCHANGED <<csv_body, bridge_vars, serial_vars, device_vars>>

ExtractDwsim ==
    /\ extracted.dwsim = None
    /\ extracted' = [extracted EXCEPT !.dwsim = Some(parse_dwsim_csv(csv_body))]
    /\ UNCHANGED <<csv_body, bridge_vars, serial_vars, device_vars>>

NextCsv == ExtractInflux \/ ExtractDwsim

SpecCsv == InitCsv /\ [][NextCsv]_vars

(***************************************************************************)
(* Sensor node firmware (sht20/src/main.rs): main, setup_wifi,             *)
(* read_sht20_sensor, send_sensor_data, send_to_influxdb.                  *)
(***************************************************************************)
\* u16 ^ u16
BitXor(a, b) ==
    LET Bit(i) == (2 ^ i) * (((a \div (2 ^ i)) + (b \div (2 ^ i))) % 2)
    IN Bit(0) + Bit(1) + Bit(2) + Bit(3) + Bit(4) + Bit(5) + Bit(6) + Bit(7)
       + Bit(8) + Bit(9) + Bit(10) + Bit(11) + Bit(12) + Bit(13) + Bit(14) + Bit(15)

\* One round of the inner loop of calculate_crc16 (0xA001 = 40961).
CrcRound(crc) == IF crc % 2 # 0 THEN BitXor(crc \div 2, 40961) ELSE crc \div 2

RECURSIVE CrcRounds(_, _)
CrcRounds(crc, n) == IF n = 0 THEN crc ELSE CrcRounds(CrcRound(crc), n - 1)

\* The outer loop over the bytes; crc is a u16 throughout.
RECURSIVE CrcFrom(_, _)
CrcFrom(crc, data) == IF crc > 65535 \/ data = <<>> THEN crc ELSE CrcFrom(CrcRounds(BitXor(crc, Head(data)), 8), Tail(data))

calculate_crc16(data) == CrcFrom(65535, data)

\* A Modbus request: the six command bytes, then the CRC, low byte first.
Request(cmd) == LET crc == calculate_crc16(cmd) IN cmd \o <<crc % 256, (crc \div 256) % 256>>

temp_request == Request(<<1, 4, 0, 1, 0, 1>>)

hum_request == Request(<<1, 4, 0, 0, 0, 1>>)

hum_request2 == Request(<<1, 4, 0, 2, 0, 1>>)

\* The entries of cycle_log.  A read holds the bytes_read bytes that
\* uart.read put at the front of the response buffer (none for Err).
WriteEvent(request, ok) == [op |-> "write", data |-> request, ok |-> ok]

ReadEvent(bytes, ok) == [op |-> "read", data |-> bytes, ok |-> ok]

UploadEvent(temperature, humidity) == [op |-> "upload", data |-> <<temperature, humidity>>, ok |-> TRUE]

RawValue_NoCrc(res) ==
    IF res.ok /\ Len(res.data) >= 7 THEN Some(res.data[4] * 256 + res.data[5]) ELSE None

\* What one uart.read leaves in temperature_raw / humidity_raw: the
\* register value of a response of at least 7 bytes whose bytes 5 and 6
\* (0-based) are the CRC of its first five bytes.
RawValue(res) ==
    IF /\ res.ok
       /\ Len(res.data) >= 7
       /\ res.data[7] * 256 + res.data[6] = calculate_crc16(SubSeq(res.data, 1, 5))
    THEN Some(res.data[4] * 256 + res.data[5])
    ELSE None

\* A well-formed response of the sensor carrying one register.
Frame(raw) ==
    LET body == <<1, 4, 2, raw \div 256, raw % 256>>
        crc == calculate_crc16(body)
    IN body \o <<crc % 256, crc \div 256>>

\* Register values around the limits of the range check.
RawValues == {65, 66, 1011, 1012, 1064, 1065}

\* What the bus can deliver: nothing, a truncated frame, well-formed frames,
\* a frame followed by a stray byte, a frame with its CRC bytes exchanged,
\* a frame with a damaged data byte.
Responses ==
    {<<>>, SubSeq(Frame(1011), 1, 5), Frame(66) \o <<0>>}
    \cup {Frame(raw) : raw \in RawValues}
    \cup {[Frame(1064) EXCEPT ![6] = Frame(1064)[7], ![7] = Frame(1064)[6]]}
    \cup {[Frame(66) EXCEPT ![5] = 67]}

ReadResults == {ReadEvent(<<>>, FALSE)} \cup {ReadEvent(bytes, TRUE) : bytes \in Responses}

\* f32 arithmetic of the match arm, in tenths: raw / 10.0 + offset.
Temperature(raw) == raw - 12

Humidity(raw) == raw - 65

InRange(temperature, humidity) ==
    temperature > -500 /\ temperature < 1000 /\ humidity > 0 /\ humidity < 1000

\* anyhow results of the upload path.
UploadOk == [ok |-> TRUE, msg |-> "", status |-> 0]

UploadErr(msg, status) == [ok |-> FALSE, msg |-> msg, status |-> status]

\* io says which call of the request fails, if any, and the status the
\* server answers otherwise.
try_influxdb_upload(io) ==
    IF io.fails = "connection" THEN UploadErr("HTTP connection failed", 0)
    ELSE IF io.fails = "request" THEN UploadErr("Request creation failed", 0)
    ELSE IF io.fails = "write_all" THEN UploadErr("Write request body failed", 0)
    ELSE IF io.fails = "flush" THEN UploadErr("Flush request failed", 0)
    ELSE IF io.fails = "submit" THEN UploadErr("Submit request failed", 0)
    ELSE IF io.status = 204 THEN UploadOk
    ELSE IF io.status = 400 THEN UploadErr("Bad request - check data format", 0)
    ELSE IF io.status = 401 THEN UploadErr("Unauthorized - check token", 0)
    ELSE IF io.status = 404 THEN UploadErr("Not found - check URL/bucket/org", 0)
    ELSE UploadErr("HTTP", io.status)

UploadInputs ==
    {[fails |-> "connection", status |-> 0], [fails |-> "submit", status |-> 0]}
    \cup {[fails |-> "none", status |-> s] : s \in {204, 200, 401}}

max_retries == 3

WifiRetryLimit == 60

\* setup_wifi up to wifi.connect(): every call before the polling loop
\* returns through `?` when it fails.
WifiConnect ==
    /\ dpc = "setup_wifi"
    /\ \E ok \in BOOLEAN :
        IF ok
        THEN dpc' = "wifi_check" /\ wifi_result' = wifi_result
        ELSE dpc' = "wifi_returned" /\ wifi_result' = Some("Err")
    /\ retry' = 0
    /\ UNCHANGED <<wifi_checks, temperature_raw, humidity_raw, cycle_log, cycle_sleep, attempt, attempts, delays, send_result, bridge_vars, serial_vars, csv_vars>>

\* One pass of setup_wifi's loop; after the break nothing can fail.
WifiCheck ==
    /\ dpc = "wifi_check"
    /\ wifi_checks' = wifi_checks + 1
    /\ \E connected \in BOOLEAN :
        IF connected
        THEN dpc' = "wifi_returned" /\ wifi_result' = Some("Ok") /\ retry' = retry
        ELSE IF retry > WifiRetryLimit
        THEN dpc' = "wifi_returned" /\ wifi_result' = Some("Err") /\ retry' = retry
        ELSE dpc' = "wifi_check" /\ wifi_result' = wifi_result /\ retry' = retry + 1
    /\ UNCHANGED <<temperature_raw, humidity_raw, cycle_log, cycle_sleep, attempt, attempts, delays, send_result, bridge_vars, serial_vars, csv_vars>>

\* main's match on setup_wifi(); the locals of setup_wifi are gone.
MainAfterWifi ==
    /\ dpc = "wifi_returned"
    /\ dpc' = IF wifi_result = Some("Ok") THEN "setup_sntp" ELSE "read_sht20_sensor"
    /\ retry' = 0
    /\ wifi_checks' = 0
    /\ UNCHANGED <<wifi_result, temperature_raw, humidity_raw, cycle_log, cycle_sleep, attempt, attempts, delays, send_result, bridge_vars, serial_vars, csv_vars>>

\* setup_sntp returns after at most 30 one-second waits; main only logs
\* its result.
SetupSntp ==
    /\ dpc = "setup_sntp"
    /\ dpc' = "test_network"
    /\ UNCHANGED <<retry, wifi_checks, wifi_result, temperature_raw, humidity_raw, cycle_log, cycle_sleep, attempt, attempts, delays, send_result, bridge_vars, serial_vars, csv_vars>>

\* test_network_connectivity: two GET requests; main only logs the result.
TestNetwork ==
    /\ dpc = "test_network"
    /\ dpc' = "read_sht20_sensor"
    /\ UNCHANGED <<retry, wifi_checks, wifi_result, temperature_raw, humidity_raw, cycle_log, cycle_sleep, attempt, attempts, delays, send_result, bridge_vars, serial_vars, csv_vars>>

\* read_sht20_sensor up to its loop: LED pins and UART driver.
ReadSensorStart ==
    /\ dpc = "read_sht20_sensor"
    /\ dpc' = "temp_tx"
    /\ UNCHANGED <<retry, wifi_checks, wifi_result, temperature_raw, humidity_raw, cycle_log, cycle_sleep, attempt, attempts, delays, send_result, bridge_vars, serial_vars, csv_vars>>

\* uart.write(&temp_request); on Err: delay_ms(5000); continue.
TempTx ==
    /\ dpc = "temp_tx"
    /\ \E ok \in BOOLEAN :
        /\ cycle_log' = Append(cycle_log, WriteEvent(temp_request, ok))
        /\ IF ok
           THEN dpc' = "temp_rx" /\ cycle_sleep' = cycle_sleep
           ELSE dpc' = "cycle_delay" /\ cycle_sleep' = 5000
    /\ UNCHANGED <<retry, wifi_checks, wifi_result, temperature_raw, humidity_raw, attempt, attempts, delays, send_result, bridge_vars, serial_vars, csv_vars>>

\* uart.read(&mut temp_response, 3000) and the checks on its result.
TempRx ==
    /\ dpc = "temp_rx"
    /\ \E res \in ReadResults :
        /\ cycle_log' = Append(cycle_log, res)
        /\ temperature_raw' = RawValue(res)
    /\ dpc' = "hum_tx"
    /\ UNCHANGED <<retry, wifi_checks, wifi_result, humidity_raw, cycle_sleep, attempt, attempts, delays, send_result, bridge_vars, serial_vars, csv_vars>>

\* uart.write(&hum_request); on Err: delay_ms(5000); continue.
HumTx ==
    /\ dpc = "hum_tx"
    /\ \E ok \in BOOLEAN :
        /\ cycle_log' = Append(cycle_log, WriteEvent(hum_request, ok))
        /\ IF ok
           THEN dpc' = "hum_rx" /\ cycle_sleep' = cycle_sleep
           ELSE dpc' = "cycle_delay" /\ cycle_sleep' = 5000
    /\ UNCHANGED <<retry, wifi_checks, wifi_result, temperature_raw, humidity_raw, attempt, attempts, delays, send_result, bridge_vars, serial_vars, csv_vars>>

\* if humidity_raw.is_none()
NeedsFallback(raw) == raw = None

\* uart.read(&mut hum_response, 3000), then the test that opens the
\* fallback block.
HumRx ==
    /\ dpc = "hum_rx"
    /\ \E res \in ReadResults :
        /\ cycle_log' = Append(cycle_log, res)
        /\ humidity_raw' = RawValue(res)
        /\ dpc' = IF NeedsFallback(RawValue(res)) THEN "hum2_tx" ELSE "match"
    /\ UNCHANGED <<retry, wifi_checks, wifi_result, temperature_raw, cycle_sleep, attempt, attempts, delays, send_result, bridge_vars, serial_vars, csv_vars>>

\* uart.write(&hum_request2): a failure only leaves the fallback read out.
HumFallbackTx ==
    /\ dpc = "hum2_tx"
    /\ \E ok \in BOOLEAN :
        /\ cycle_log' = Append(cycle_log, WriteEvent(hum_request2, ok))
        /\ dpc' = IF ok THEN "hum2_rx" ELSE "match"
    /\ UNCHANGED <<retry, wifi_checks, wifi_result, temperature_raw, humidity_raw, cycle_sleep, attempt, attempts, delays, send_result, bridge_vars, serial_vars, csv_vars>>

\* The second uart.read(&mut hum_response, 3000): humidity_raw is assigned
\* only by a good response.
HumFallbackRx ==
    /\ dpc = "hum2_rx"
    /\ \E res \in ReadResults :
        /\ cycle_log' = Append(cycle_log, res)
        /\ humidity_raw' = IF IsSome(RawValue(res)) THEN RawValue(res) ELSE humidity_raw
    /\ dpc' = "match"
    /\ UNCHANGED <<retry, wifi_checks, wifi_result, temperature_raw, cycle_sleep, attempt, attempts, delays, send_result, bridge_vars, serial_vars, csv_vars>>

\* match (temperature_raw, humidity_raw): send_sensor_data is called, and
\* with it send_to_influxdb, in the first arm when the values are in range;
\* every other path goes to the closing delay_ms(10000).
MatchReadings ==
    /\ dpc = "match"
    /\ IF /\ IsSome(temperature_raw)
          /\ IsSome(humidity_raw)
          /\ InRange(Temperature(Unwrap(temperature_raw)), Humidity(Unwrap(humidity_raw)))
       THEN /\ cycle_log' = Append(cycle_log, UploadEvent(Temperature(Unwrap(temperature_raw)), Humidity(Unwrap(humidity_raw))))
            /\ dpc' = "for_attempt"
            /\ cycle_sleep' = cycle_sleep
       ELSE /\ cycle_log' = cycle_log
            /\ dpc' = "cycle_delay"
            /\ cycle_sleep' = 10000
    /\ UNCHANGED <<retry, wifi_checks, wifi_result, temperature_raw, humidity_raw, attempt, attempts, delays, send_result, bridge_vars, serial_vars, csv_vars>>

\* for attempt in 1..=max_retries, and the bail! behind the loop.
ForAttempt ==
    /\ dpc = "for_attempt"
    /\ IF attempt <= max_retries
       THEN dpc' = "try_upload" /\ send_result' = send_result
       ELSE dpc' = "send_returned" /\ send_result' = Some(UploadErr("Maximum retry attempts exceeded", 0))
    /\ UNCHANGED <<retry, wifi_checks, wifi_result, temperature_raw, humidity_raw, cycle_log, cycle_sleep, attempt, attempts, delays, bridge_vars, serial_vars, csv_vars>>

\* FreeRtos::delay_ms(attempt * 2 * 1000)
RetryDelay(n) == n * 2 * 1000

MayRetry_Always(n) == TRUE

\* if attempt < max_retries
MayRetry(n) == n < max_retries

\* The body of the for loop: one try_influxdb_upload call and the match
\* on its result.
TryUpload ==
    /\ dpc = "try_upload"
    /\ \E io \in UploadInputs :
        LET result == try_influxdb_upload(io) IN
        /\ attempts' = Append(attempts, [io |-> io, result |-> result])
        /\ IF result.ok
           THEN /\ send_result' = Some(UploadOk)
                /\ dpc' = "send_returned"
                /\ UNCHANGED <<attempt, delays>>
           ELSE IF MayRetry(attempt)
           THEN /\ delays' = Append(delays, RetryDelay(attempt))
                /\ attempt' = attempt + 1
                /\ dpc' = "for_attempt"
                /\ send_result' = send_result
           ELSE /\ send_result' = Some(result)
                /\ dpc' = "send_returned"
                /\ UNCHANGED <<attempt, delays>>
    /\ UNCHANGED <<retry, wifi_checks, wifi_result, temperature_raw, humidity_raw, cycle_log, cycle_sleep, bridge_vars, serial_vars, csv_vars>>

\* send_sensor_data logs either result and returns; the cycle goes on to
\* its closing delay_ms(10000).
SendSensorDataReturns ==
    /\ dpc = "send_returned"
    /\ dpc' = "cycle_delay"
    /\ cycle_sleep' = 10000
    /\ UNCHANGED <<retry, wifi_checks, wifi_result, temperature_raw, humidity_raw, cycle_log, attempt, attempts, delays, send_result, bridge_vars, serial_vars, csv_vars>>

\* The delay ends and the loop body starts again with fresh locals.
CycleDelay ==
    /\ dpc = "cycle_delay"
    /\ dpc' = "temp_tx"
    /\ temperature_raw' = None
    /\ humidity_raw' = None
    /\ cycle_log' = <<>>
    /\ cycle_sleep' = 0
    /\ attempt' = 1
    /\ attempts' = <<>>
    /\ delays' = <<>>
    /\ send_result' = None
    /\ UNCHANGED <<retry, wifi_checks, wifi_result, bridge_vars, serial_vars, csv_vars>>

NextDevice ==
    \/ WifiConnect \/ WifiCheck \/ MainAfterWifi \/ SetupSntp \/ TestNetwork \/ ReadSensorStart
    \/ TempTx \/ TempRx \/ HumTx \/ HumRx \/ HumFallbackTx \/ HumFallbackRx \/ MatchReadings
    \/ ForAttempt \/ TryUpload \/ SendSensorDataReturns \/ CycleDelay

\* The firmware alone; the daemon's callback plays no part in it.
InitDevice == Init /\ on_data = "upload"

SpecDevice == InitDevice /\ [][NextDevice]_vars

\* Every step is a call that returns: delay_ms, uart.write, uart.read with
\* its 3000 ms timeout, an HTTP request with its 30 s timeout.
DeviceFairness == WF_vars(NextDevice)

SpecDeviceFair == SpecDevice /\ DeviceFairness

(***************************************************************************)
(* Properties of the bridge loop.                                          *)
(***************************************************************************)
QueryFailed(kind) == kind \in {"transport", "non2xx"}

AfterSensorQuery == {"dwsim_debug", "dwsim_meas", "query_dwsim", "build", "derive_fan", "derive_pump", "publish", "sleep"}

AfterDwsimQuery == {"build", "derive_fan", "derive_pump", "publish", "sleep"}

\* C1: a failed last-value query (transport error or non-2xx) does not abort
\* the iteration: after a failed sensor query the loop is at the setpoint
\* query or further on, after a failed setpoint query it is at the payload
\* or further on, and the failed query's fields are simply absent.
C1_QueryFailureDoesNotAbort ==
    /\ QueryFailed(sensor_resp) => bpc \in AfterSensorQuery /\ sensor_data = LastRowDefault
    /\ QueryFailed(dwsim_resp) => bpc \in AfterDwsimQuery /\ dwsim_data = DwsimRowDefault

\* C2: whatever the store and the broker answer, the bridge loop never
\* terminates (main never returns from the loop).
C2_BridgeLoopNeverExits == bpc # "exited"

\* C3: when the setpoint query failed and the sensor query returned a
\* temperature and a humidity, the iteration ends with exactly one publish
\* whose payload holds both sensor fields and the pump signal derived from
\* the humidity (ON below 60) and holds no fan field.
C3_PartialFailureStillPublishes ==
    (/\ QueryFailed(dwsim_resp)
     /\ IsSome(sensor_data.temp)
     /\ IsSome(sensor_data.hum)
     /\ bpc \in {"sleep", "exited"})
    => /\ Len(published) = 1
       /\ {"sht20_temperature", "sht20_humidity", "pump_calculated_status"} \subseteq DOMAIN published[1].body
       /\ published[1].body["sht20_temperature"] = Unwrap(sensor_data.temp)
       /\ published[1].body["sht20_humidity"] = Unwrap(sensor_data.hum)
       /\ published[1].body["pump_calculated_status"] = (IF Unwrap(sensor_data.hum) < 60 THEN 1 ELSE 0)
       /\ "exhaust_fan_status" \notin DOMAIN published[1].body

(***************************************************************************)
(* Properties of the serial monitor.                                       *)
(***************************************************************************)
\* on_data invocations made on the current connection.
ConnEmitted == SubSeq(emitted, conn_base + 1, Len(emitted))

IsSensor(line) == IsSome(parse_sensor_data(line))

IsStatus(line) == IsSome(parse_relay_status(line))

Reading(line) == Unwrap(parse_sensor_data(line))

Flags(line) == Unwrap(parse_relay_status(line))

NoFlags(d) == [d EXCEPT !.motor_status = None, !.pump_status = None]

WithFlags(d, f) == [d EXCEPT !.motor_status = Some(f[1]), !.pump_status = Some(f[2])]

\* C4: on a fresh connection the lines [sensor(A), status(S1)] cause exactly
\* two invocations, in this order: A with both flags unknown, then A with
\* the flags of S1; after the sensor line alone there is exactly the first.
C4_SensorThenStatus ==
    /\ (Len(rx) = 1 /\ IsSensor(rx[1])) => ConnEmitted = <<NoFlags(Reading(rx[1]))>>
    /\ (Len(rx) = 2 /\ IsSensor(rx[1]) /\ IsStatus(rx[2]))
       => ConnEmitted = <<NoFlags(Reading(rx[1])), WithFlags(Reading(rx[1]), Flags(rx[2]))>>

C4_Witness ==
    /\ Len(rx) = 2 /\ IsSensor(rx[1]) /\ IsStatus(rx[2])
    /\ Flags(rx[2]) = <<TRUE, FALSE>>
    /\ Len(ConnEmitted) = 2
    /\ ConnEmitted[2].motor_status = Some(TRUE)

\* C5: on a fresh connection the lines [status(S1), sensor(A)] cause exactly
\* one invocation, A with the flags of S1; the status line alone causes none.
C5_StatusThenSensor ==
    /\ (Len(rx) = 1 /\ IsStatus(rx[1])) => ConnEmitted = <<>>
    /\ (Len(rx) = 2 /\ IsStatus(rx[1]) /\ IsSensor(rx[2]))
       => ConnEmitted = <<WithFlags(Reading(rx[2]), Flags(rx[1]))>>

C5_Witness ==
    /\ Len(rx) = 2 /\ IsStatus(rx[1]) /\ IsSensor(rx[2])
    /\ Flags(rx[1]) = <<FALSE, TRUE>>
    /\ Len(ConnEmitted) = 1
    /\ ConnEmitted[1].pump_status = Some(TRUE)

\* C6: on [sensor(A), sensor(B), status(S)] the invocations are A and B with
\* the stale (here unknown) status and then B with S; the second sensor line
\* replaces the pending reading, so A is not emitted with S.
C6_StatusUpdatesMostRecentPending ==
    /\ (Len(rx) = 2 /\ IsSensor(rx[1]) /\ IsSensor(rx[2]))
       => pending_sensor_data = Some(NoFlags(Reading(rx[2])))
    /\ (Len(rx) = 3 /\ IsSensor(rx[1]) /\ IsSensor(rx[2]) /\ IsStatus(rx[3]))
       => /\ ConnEmitted = <<NoFlags(Reading(rx[1])), NoFlags(Reading(rx[2])), WithFlags(Reading(rx[2]), Flags(rx[3]))>>
          /\ pending_sensor_data = None

C6_Witness ==
    /\ Len(rx) = 3 /\ IsSensor(rx[1]) /\ IsSensor(rx[2]) /\ IsStatus(rx[3])
    /\ Reading(rx[1]) # Reading(rx[2])
    /\ Len(ConnEmitted) = 3
    /\ ConnEmitted[3].timestamp = Reading(rx[2]).timestamp

\* C7: a well-formed sensor line is forwarded while that line is processed:
\* the step that reads it appends exactly one invocation, the reading with
\* the status known at that moment (possibly unknown), whatever follows.
C7_Step ==
    (rx' # rx /\ rx' # <<>> /\ IsSensor(Last(rx')))
    => emitted' = Append(emitted, [Reading(Last(rx')) EXCEPT !.motor_status = relay_status.motor, !.pump_status = relay_status.pump])

C7_SensorNeverHeldBack == [][C7_Step]_vars

C7_Witness ==
    /\ spc = "retry_wait"
    /\ Len(rx) = 1 /\ IsSensor(rx[1])
    /\ ConnEmitted = <<NoFlags(Reading(rx[1]))>>

\* C8: a status line updates the last-known status and, only if a reading is
\* pending, emits that reading with the refreshed status and clears the slot;
\* with nothing pending it emits nothing, so [sensor(A), status(S1),
\* status(S2)] yields exactly two invocations.
C8_Step ==
    (rx' # rx /\ rx' # <<>> /\ IsStatus(Last(rx')))
    => /\ relay_status' = [motor |-> Some(Flags(Last(rx'))[1]), pump |-> Some(Flags(Last(rx'))[2])]
       /\ pending_sensor_data' = None
       /\ emitted' = IF IsSome(pending_sensor_data)
                     THEN Append(emitted, WithFlags(Unwrap(pending_sensor_data), Flags(Last(rx'))))
                     ELSE emitted

C8_Scenario ==
    (Len(rx) = 3 /\ IsSensor(rx[1]) /\ IsStatus(rx[2]) /\ IsStatus(rx[3]))
    => ConnEmitted = <<NoFlags(Reading(rx[1])), WithFlags(Reading(rx[1]), Flags(rx[2]))>>

C8_StatusEmitsOnlyPending == []C8_Scenario /\ [][C8_Step]_vars

C8_Witness ==
    /\ Len(rx) = 3 /\ IsSensor(rx[1]) /\ IsStatus(rx[2]) /\ IsStatus(rx[3])
    /\ Flags(rx[2]) # Flags(rx[3])
    /\ Len(ConnEmitted) = 2
    /\ relay_status.motor = Some(Flags(rx[3])[1])

\* C9 as stated: the last-known status persists until superseded, across
\* zero-length reads, read errors and reconnects: every invocation made
\* after some status line was received, on whatever connection, carries the
\* flags of the most recent one.
C9_Step ==
    (Len(emitted') > Len(emitted) /\ IsSome(ever_status'))
    => /\ Last(emitted').motor_status = Some(Unwrap(ever_status')[1])
       /\ Last(emitted').pump_status = Some(Unwrap(ever_status')[2])

C9_StatusPersistsAcrossReconnect == [][C9_Step]_vars

\* Flags of the most recent status line among lines, None if there is none.
LastStatusIn(lines) ==
    LET S == {i \in 1..Len(lines) : IsStatus(lines[i])}
    IN  IF S = {} THEN None ELSE Some(Flags(lines[MaxOf(S)]))

StatusOf(f) == IF IsSome(f) THEN [motor |-> Some(Unwrap(f)[1]), pump |-> Some(Unwrap(f)[2])] ELSE RelayStatusDefault

C9_ConnInv == relay_status = StatusOf(LastStatusIn(rx))

C9_ConnStep ==
    Len(emitted') > Len(emitted)
    => /\ Last(emitted').motor_status = StatusOf(LastStatusIn(rx')).motor
       /\ Last(emitted').pump_status = StatusOf(LastStatusIn(rx')).pump

\* C9 as amended: within one connection the last-known status persists until
\* superseded: it is that of the most recent status line read on the current
\* connection (unknown if there is none, also after a reconnect), zero-length
\* reads leave it alone, and every invocation carries it.
C9_StatusPersistsWithinConnection == []C9_ConnInv /\ [][C9_ConnStep]_vars

C9_Witness ==
    /\ conn_base >= 1
    /\ Len(rx) = 2 /\ IsStatus(rx[1]) /\ IsSensor(rx[2])
    /\ last_read = "zero"
    /\ ConnEmitted = <<WithFlags(Reading(rx[2]), Flags(rx[1]))>>


\* C11: the serial monitor retries forever.  Every read error and every
\* failed open leads to the fixed wait, the wait leads to another open
\* attempt, start_monitoring is never left (some step is always possible),
\* and, the sleep and the open call returning, each wait is followed by an
\* open attempt and each open attempt by reading or by another wait.
C11_Inv == spc \in {"open", "reading", "retry_wait"} /\ ENABLED NextSerial

C11_Step ==
    /\ (spc = "reading" /\ spc' # "reading") => (spc' = "retry_wait" /\ last_read' \in {"timeout", "error"})
    /\ (spc = "open" /\ spc' # "open") => spc' \in {"reading", "retry_wait"}
    /\ (spc = "retry_wait" /\ spc' # "retry_wait") => spc' = "open"

C11_RetriesForever ==
    /\ []C11_Inv
    /\ [][C11_Step]_vars
    /\ (spc = "retry_wait") ~> (spc = "open")
    /\ (spc = "open") ~> (spc \in {"reading", "retry_wait"})

\* The wait that follows a failed open: no connection was ever up.
C11_Witness == spc = "retry_wait" /\ last_read = "none" /\ nlines = 0

\* C10: neither a zero-length read nor a timed-out read ends the connection:
\* after either, the read loop is still reading on the same connection.
C10_QuietReadKeepsConnection == last_read \in {"zero", "timeout"} => spc = "reading"

\* C12: an error returned by the callback does not stop ingestion.  With a
\* callback that fails on every record, the step that invokes it leaves the
\* read loop reading on the same connection, the correlator ends in the state
\* a successful invocation leaves (after a status line: nothing pending and
\* the line's flags; after a sensor line: that record pending and the flags
\* untouched), and the next line can be read.
C12_Step ==
    (on_data = "failing" /\ Len(emitted') > Len(emitted))
    => /\ spc' = "reading"
       /\ conn_base' = conn_base
       /\ rx' = Append(rx, Last(rx'))
       /\ IF IsStatus(Last(rx'))
          THEN pending_sensor_data' = None /\ relay_status' = StatusOf(Some(Flags(Last(rx'))))
          ELSE pending_sensor_data' = Some(Last(emitted')) /\ relay_status' = relay_status

C12_Proceeds == (on_data = "failing" /\ spc = "reading" /\ nlines < MaxLines) => ENABLED ReadLine

C12_CallbackErrorDoesNotStop == [][C12_Step]_vars /\ []C12_Proceeds

\* Two failed invocations on one connection, and a third line read after them.
C12_Witness ==
    /\ on_data = "failing"
    /\ spc = "reading"
    /\ Len(rx) = 3
    /\ Len(ConnEmitted) >= 2
    /\ last_read = "line"

\* C13: the callback never blocks the read loop.  Each invocation hands the
\* record to a new upload task and returns, so the read loop stays reading
\* and can take the next line however many uploads are outstanding, and an
\* upload that finishes, well or badly, changes nothing of the read loop.
C13_Step ==
    /\ (on_data = "upload" /\ Len(emitted') > Len(emitted))
       => /\ inflight' = Append(inflight, Last(emitted'))
          /\ spc' = "reading"
          /\ store' = store
    /\ Len(inflight') < Len(inflight)
       => UNCHANGED <<spc, relay_status, pending_sensor_data, emitted, rx, conn_base, last_read>>

C13_CanRead == (on_data = "upload" /\ spc = "reading" /\ nlines < MaxLines) => ENABLED ReadLine

C13_CallbackNeverBlocks == [][C13_Step]_vars /\ []C13_CanRead

\* Three records emitted on one connection while earlier uploads were still
\* outstanding, one upload having failed meanwhile.
C13_Witness ==
    /\ on_data = "upload"
    /\ spc = "reading"
    /\ Len(ConnEmitted) = 3
    /\ Len(inflight) = 2
    /\ store = <<>>

(***************************************************************************)
(* Properties of the fused payload, the derived signals and the publish.   *)
(***************************************************************************)
HasKey(p, k) == k \in DOMAIN p

WritesOf(field) == {i \in 1..Len(writebacks) : writebacks[i].field = field}

HasBothTemps == IsSome(sensor_data.temp) /\ IsSome(dwsim_data.temp)

AfterBuild == bpc \in {"derive_fan", "derive_pump", "publish", "sleep"}

AfterFan == bpc \in {"derive_pump", "publish", "sleep"}

AfterPump == bpc \in {"publish", "sleep"}

\* C14: an empty payload is never published.  No published body is empty, a
\* cycle publishes at most once, and once the publish step of a cycle is
\* done either the payload had a field and was published exactly once with
\* no warning, or it was empty, nothing was published and the warning was
\* logged.
C14_NeverPublishesEmpty ==
    /\ \A i \in 1..Len(published) : DOMAIN published[i].body # {}
    /\ Len(published) <= 1
    /\ warned => published = <<>>
    /\ bpc = "sleep"
       => IF DOMAIN payload = {}
          THEN published = <<>> /\ warned
          ELSE Len(published) = 1 /\ published[1].body = payload /\ ~warned

\* Both queries answered without any usable row: the cycle only warns.
C14_Witness ==
    /\ bpc = "sleep"
    /\ sensor_resp = "ok" /\ dwsim_resp = "ok"
    /\ DOMAIN payload = {}
    /\ published = <<>>
    /\ warned

\* C15: the fan signal exists exactly when the sensor temperature and the
\* setpoint are both present.  Then it is 1 iff the sensor temperature is
\* strictly greater than the setpoint and one fan write-back with that value
\* was issued; otherwise the payload has no fan field and no fan write-back
\* was issued.  Before the derive step there is neither.
C15_FanRule ==
    /\ AfterFan /\ HasBothTemps
       => /\ HasKey(payload, "exhaust_fan_status")
          /\ payload["exhaust_fan_status"] = (IF Unwrap(sensor_data.temp) > Unwrap(dwsim_data.temp) THEN 1 ELSE 0)
          /\ Unwrap(sensor_data.temp) = Unwrap(dwsim_data.temp) => payload["exhaust_fan_status"] = 0
          /\ Cardinality(WritesOf("exhaust_fan_status")) = 1
          /\ \A i \in WritesOf("exhaust_fan_status") : writebacks[i].value = payload["exhaust_fan_status"]
    /\ ~(AfterFan /\ HasBothTemps)
       => ~HasKey(payload, "exhaust_fan_status") /\ WritesOf("exhaust_fan_status") = {}
    /\ \A i \in 1..Len(published) : HasKey(published[i].body, "exhaust_fan_status") <=> HasBothTemps

\* Sensor temperature equal to the setpoint: the fan is published as off.
C15_Witness ==
    /\ bpc = "sleep"
    /\ sensor_data.temp = Some(26) /\ dwsim_data.temp = Some(26)
    /\ Len(published) = 1
    /\ published[1].body["exhaust_fan_status"] = 0
    /\ Cardinality(WritesOf("exhaust_fan_status")) = 1

\* C16: the pump signal exists exactly when the humidity is present,
\* whatever the two temperatures are.  Then it is 1 iff the humidity is
\* strictly below 60 (59 gives 1, 60 and 65 give 0) and one pump write-back
\* with that value was issued; without humidity there is neither.
C16_PumpRule ==
    /\ AfterPump /\ IsSome(sensor_data.hum)
       => /\ HasKey(payload, "pump_calculated_status")
          /\ payload["pump_calculated_status"] = (IF Unwrap(sensor_data.hum) < 60 THEN 1 ELSE 0)
          /\ Unwrap(sensor_data.hum) = 59 => payload["pump_calculated_status"] = 1
          /\ Unwrap(sensor_data.hum) \in {60, 65} => payload["pump_calculated_status"] = 0
          /\ Cardinality(WritesOf("pump_calculated_status")) = 1
          /\ \A i \in WritesOf("pump_calculated_status") : writebacks[i].value = payload["pump_calculated_status"]
    /\ ~(AfterPump /\ IsSome(sensor_data.hum))
       => ~HasKey(payload, "pump_calculated_status") /\ WritesOf("pump_calculated_status") = {}
    /\ \A i \in 1..Len(published) : HasKey(published[i].body, "pump_calculated_status") <=> IsSome(sensor_data.hum)

\* Humidity at the threshold and neither temperature present: pump off.
C16_Witness ==
    /\ bpc = "sleep"
    /\ sensor_data.hum = Some(60)
    /\ sensor_data.temp = None /\ dwsim_data.temp = None
    /\ Len(published) = 1
    /\ published[1].body["pump_calculated_status"] = 0

\* Humidity just below the threshold: pump on.
C16_JustBelow ==
    /\ bpc = "sleep"
    /\ sensor_data.hum = Some(59)
    /\ Len(published) = 1
    /\ published[1].body["pump_calculated_status"] = 1

\* C17: a derived value is published together with the inputs it was
\* computed from.  A published fan field comes with the sensor temperature
\* and the setpoint, and is the comparison of those two published values; a
\* published pump signal comes with the humidity, and is the comparison of
\* that published value with the threshold.
C17_DerivedShipsWithInputs ==
    \A i \in 1..Len(published) :
        LET body == published[i].body
        IN  /\ HasKey(body, "exhaust_fan_status")
               => /\ HasKey(body, "sht20_temperature")
                  /\ HasKey(body, "dwsim_temperature")
                  /\ HasKey(body, "dwsim_temperature_setpoint")
                  /\ body["dwsim_temperature_setpoint"] = body["dwsim_temperature"]
                  /\ body["exhaust_fan_status"] = 1 <=> body["sht20_temperature"] > body["dwsim_temperature"]
            /\ HasKey(body, "pump_calculated_status")
               => /\ HasKey(body, "sht20_humidity")
                  /\ body["pump_calculated_status"] = 1 <=> body["sht20_humidity"] < 60

\* Both derived signals published, each next to its inputs.
C17_Witness ==
    /\ Len(published) = 1
    /\ HasKey(published[1].body, "exhaust_fan_status")
    /\ HasKey(published[1].body, "pump_calculated_status")
    /\ published[1].body["sht20_temperature"] = 26
    /\ published[1].body["dwsim_temperature"] = 24
    /\ published[1].body["sht20_humidity"] = 55

\* C18: the four raw fields are independently optional.  Once the payload
\* is built, each raw key is in it exactly when the query result has that
\* field, with the result's value, whatever the other three are; and a
\* payload with any field at all is the one published.
RawKeyMatches(p, k, opt) == (HasKey(p, k) <=> IsSome(opt)) /\ (IsSome(opt) => p[k] = Unwrap(opt))

C18_RawFieldsIndependent ==
    /\ AfterBuild
       => /\ RawKeyMatches(payload, "sht20_temperature", sensor_data.temp)
          /\ RawKeyMatches(payload, "sht20_humidity", sensor_data.hum)
          /\ RawKeyMatches(payload, "pump_status", sensor_data.pump_status)
          /\ RawKeyMatches(payload, "dwsim_temperature", dwsim_data.temp)
    /\ \A i \in 1..Len(published) :
          /\ RawKeyMatches(published[i].body, "sht20_temperature", sensor_data.temp)
          /\ RawKeyMatches(published[i].body, "sht20_humidity", sensor_data.hum)
          /\ RawKeyMatches(published[i].body, "pump_status", sensor_data.pump_status)
          /\ RawKeyMatches(published[i].body, "dwsim_temperature", dwsim_data.temp)
    /\ (bpc = "sleep" /\ (IsSome(sensor_data.temp) \/ IsSome(sensor_data.hum) \/ IsSome(sensor_data.pump_status) \/ IsSome(dwsim_data.temp)))
       => Len(published) = 1

\* Only the stored pump status and the setpoint are present, and are published.
C18_Witness ==
    /\ Len(published) = 1
    /\ DOMAIN published[1].body = {"pump_status", "dwsim_temperature"}
    /\ sensor_data.temp = None /\ sensor_data.hum = None

\* C19: one write-back per derived signal.  After the derive steps the
\* number of write-back calls is the number of signals computed (two when
\* both temperatures and the humidity are present), each call is for a
\* different field, and whatever its outcome the field it wrote stays in the
\* payload with the written value, the loop goes on, and the cycle publishes
\* a payload with that field.
DerivedCount == (IF HasBothTemps THEN 1 ELSE 0) + (IF IsSome(sensor_data.hum) THEN 1 ELSE 0)

C19_WriteBackPerDerived ==
    /\ AfterPump => Len(writebacks) = DerivedCount
    /\ (AfterPump /\ HasBothTemps /\ IsSome(sensor_data.hum)) => Len(writebacks) = 2
    /\ \A i, j \in 1..Len(writebacks) : writebacks[i].field = writebacks[j].field => i = j
    /\ \A i \in 1..Len(writebacks) :
          /\ HasKey(payload, writebacks[i].field)
          /\ payload[writebacks[i].field] = writebacks[i].value
    /\ writebacks # <<>> => bpc \in {"derive_pump", "publish", "sleep"}
    /\ (bpc = "sleep" /\ writebacks # <<>>)
       => /\ Len(published) = 1
          /\ \A i \in 1..Len(writebacks) : HasKey(published[1].body, writebacks[i].field)

\* Both write-backs failed in transport; both fields are published.
C19_Witness ==
    /\ bpc = "sleep"
    /\ Len(writebacks) = 2
    /\ writebacks[1].outcome = "transport" /\ writebacks[2].outcome = "transport"
    /\ Len(published) = 1
    /\ HasKey(published[1].body, "exhaust_fan_status")
    /\ HasKey(published[1].body, "pump_calculated_status")

\* C20: the steps of an iteration run in the order sensor query, setpoint
\* query (its debug queries first), derive with write-backs, publish; and
\* iterations do not overlap.  The setpoint query is issued only after the
\* sensor query has answered, the payload and the write-backs exist only
\* after both queries have answered, the publish or the empty-payload
\* warning happens only after both derive steps, and the next iteration's
\* sensor query starts only from the sleep that follows a completed publish
\* step, with every local of the previous iteration gone.
StepOrder ==
    {<<"query_sensor", "dwsim_debug">>, <<"query_sensor", "exited">>,
     <<"dwsim_debug", "dwsim_meas">>, <<"dwsim_debug", "query_dwsim">>, <<"dwsim_meas", "query_dwsim">>,
     <<"query_dwsim", "build">>, <<"query_dwsim", "exited">>,
     <<"build", "derive_fan">>, <<"derive_fan", "derive_pump">>, <<"derive_pump", "publish">>,
     <<"publish", "sleep">>, <<"sleep", "query_sensor">>}

PublishStepDone == published # <<>> \/ warned

C20_Inv ==
    /\ dwsim_resp # "none" => sensor_resp = "ok"
    /\ bpc \in {"dwsim_debug", "dwsim_meas", "query_dwsim"} => sensor_resp = "ok" /\ dwsim_resp = "none"
    /\ (DOMAIN payload # {} \/ writebacks # <<>>) => (sensor_resp = "ok" /\ dwsim_resp = "ok" /\ AfterBuild)
    /\ PublishStepDone => (bpc = "sleep" /\ Len(writebacks) = DerivedCount)
    /\ bpc = "sleep" => PublishStepDone
    /\ bpc = "query_sensor" => IterationLocals

C20_Step ==
    /\ bpc' # bpc => <<bpc, bpc'>> \in StepOrder
    /\ (bpc' = "query_sensor" /\ bpc # "query_sensor") => PublishStepDone
    /\ sensor_resp' # sensor_resp => (bpc = "query_sensor" \/ bpc' = "query_sensor")
    /\ dwsim_resp' # dwsim_resp => (bpc = "query_dwsim" \/ bpc' = "query_sensor")
    /\ writebacks' # writebacks => (bpc \in {"derive_fan", "derive_pump"} \/ bpc' = "query_sensor")
    /\ published' # published => (bpc = "publish" \/ bpc' = "query_sensor")

C20_StepsInOrder == []C20_Inv /\ [][C20_Step]_vars

\* A complete iteration: both queries, two write-backs, then the publish.
C20_Witness ==
    /\ bpc = "sleep"
    /\ sensor_resp = "ok" /\ dwsim_resp = "ok"
    /\ Len(writebacks) = 2
    /\ Len(published) = 1

(***************************************************************************)
(* Properties of the publish call and of the iteration's locals.           *)
(***************************************************************************)
\* C21: the publish never blocks the bridge loop.  Whatever the broker
\* does, so with or without the event loop taking requests off the channel,
\* a loop that has reached its publish step can complete it and go on to
\* the sleep.
C21_PublishNeverBlocks == bpc = "publish" => ENABLED Publish

\* The state the claim is about: a payload to publish and the channel full.
C21_ChannelFull == bpc = "publish" /\ DOMAIN payload # {} /\ mqtt_requests = MqttCap

\* C22: the fused state is local to the iteration.  After the derive steps
\* the payload is determined by this cycle's two query results alone: its
\* keys are those of the fields present in them plus the signals derived
\* from them, and its values are theirs; before the payload is built
\* nothing of an earlier cycle is there.  So a field absent this cycle is
\* absent from the payload whatever earlier cycles held.
KeysIf(cond, keys) == IF cond THEN keys ELSE {}

CycleKeys ==
    KeysIf(IsSome(sensor_data.temp), {"sht20_temperature"})
    \cup KeysIf(IsSome(sensor_data.hum), {"sht20_humidity", "pump_calculated_status"})
    \cup KeysIf(IsSome(sensor_data.pump_status), {"pump_status"})
    \cup KeysIf(IsSome(dwsim_data.temp), {"dwsim_temperature"})
    \cup KeysIf(HasBothTemps, {"exhaust_fan_status", "dwsim_temperature_setpoint"})

C22_CycleStateIsLocal ==
    /\ AfterPump
       => /\ DOMAIN payload = CycleKeys
          /\ HasKey(payload, "sht20_temperature") => payload["sht20_temperature"] = Unwrap(sensor_data.temp)
          /\ HasKey(payload, "sht20_humidity") => payload["sht20_humidity"] = Unwrap(sensor_data.hum)
          /\ HasKey(payload, "pump_status") => payload["pump_status"] = Unwrap(sensor_data.pump_status)
          /\ HasKey(payload, "dwsim_temperature") => payload["dwsim_temperature"] = Unwrap(dwsim_data.temp)
          /\ HasKey(payload, "dwsim_temperature_setpoint") => payload["dwsim_temperature_setpoint"] = Unwrap(dwsim_data.temp)
          /\ HasKey(payload, "exhaust_fan_status") => (payload["exhaust_fan_status"] = 1 <=> Unwrap(sensor_data.temp) > Unwrap(dwsim_data.temp))
          /\ HasKey(payload, "pump_calculated_status") => (payload["pump_calculated_status"] = 1 <=> Unwrap(sensor_data.hum) < 60)
    /\ ~AfterBuild => (DOMAIN payload = {} /\ writebacks = <<>>)
    /\ \A i \in 1..Len(published) : DOMAIN published[i].body = CycleKeys

\* An earlier cycle published a payload (its request is still queued), and
\* this cycle, whose queries found no field, has an empty payload.
C22_Witness ==
    /\ bpc = "sleep"
    /\ mqtt_requests >= 1
    /\ sensor_data = LastRowDefault /\ dwsim_data = DwsimRowDefault
    /\ DOMAIN payload = {}
    /\ warned

(***************************************************************************)
(* Properties of the line parsers and of the emissions.                    *)
(***************************************************************************)
\* A step of read_loop that took one more line off the connection.
LineRead == Len(rx') = Len(rx) + 1

\* SENSOR_DATA with two values, SENSOR_DATA with a non-numeric timestamp,
\* RELAY_STATUS with one field, other text, an empty line.
MalformedLines ==
    {<<<<"SENSOR_DATA">>, <<"100">>, <<"26">>>>,
     SensorLine("abc", "26", "55"),
     <<<<"RELAY_STATUS">>, <<"motor", "ON">>>>,
     <<<<"Guru Meditation Error">>>>,
     <<<<"">>>>}

\* C23: a malformed or unrecognized line yields no record and no error.
\* Neither parser accepts it; the step that reads it invokes no callback,
\* starts no upload, leaves the last-known status and the pending reading
\* as they were and stays reading on the same connection; and the next
\* line can be read.
C23_Step ==
    (LineRead /\ Last(rx') \in MalformedLines)
    => /\ emitted' = emitted
       /\ inflight' = inflight
       /\ relay_status' = relay_status
       /\ pending_sensor_data' = pending_sensor_data
       /\ spc' = "reading"
       /\ conn_base' = conn_base

C23_Inv ==
    /\ \A l \in MalformedLines : parse_sensor_data(l) = None /\ parse_relay_status(l) = None
    /\ (spc = "reading" /\ rx # <<>> /\ Last(rx) \in MalformedLines /\ nlines < MaxLines) => ENABLED ReadLine

C23_MalformedLineIsDropped == [][C23_Step]_vars /\ []C23_Inv

\* A malformed line between a reading and its status line: the reading is
\* still pending when the status arrives and is re-sent with the flags.
C23_Witness ==
    /\ spc = "reading"
    /\ Len(rx) = 3
    /\ IsSensor(rx[1]) /\ rx[2] \in MalformedLines /\ IsStatus(rx[3])
    /\ ConnEmitted = <<NoFlags(Reading(rx[1])), WithFlags(Reading(rx[1]), Flags(rx[3]))>>

\* The values written on a SENSOR_DATA|t|x|y line.
Written(l) == [timestamp |-> U64Table[l[2][1]], temperature |-> F32Table[l[3][1]], humidity |-> F32Table[l[4][1]]]

Values(d) == [timestamp |-> d.timestamp, temperature |-> d.temperature, humidity |-> d.humidity]

WellFormedSensorLines == {SensorLine(t, x, y) : t \in DOMAIN U64Table, x \in DOMAIN F32Table, y \in DOMAIN F32Table}

LastSensorIn(lines) == lines[MaxOf({i \in 1..Len(lines) : lines[i] \in WellFormedSensorLines})]

\* C24: a well-formed SENSOR_DATA|t|x|y line parses to timestamp t,
\* temperature x, humidity y and no actuator flags.  Every callback
\* invocation carries the three values written on the most recent
\* well-formed sensor line of the connection, and the emission a status line
\* triggers differs from the previous emission of that reading in the
\* actuator flags only.
C24_Inv ==
    \A l \in WellFormedSensorLines :
        /\ IsSome(parse_sensor_data(l))
        /\ Values(Unwrap(parse_sensor_data(l))) = Written(l)
        /\ Unwrap(parse_sensor_data(l)).motor_status = None
        /\ Unwrap(parse_sensor_data(l)).pump_status = None

C24_Step ==
    Len(emitted') > Len(emitted)
    => /\ LineRead
       /\ \E i \in 1..Len(rx') : rx'[i] \in WellFormedSensorLines
       /\ Values(Last(emitted')) = Written(LastSensorIn(rx'))
       /\ Last(rx') \notin WellFormedSensorLines
          => /\ Len(emitted) > conn_base
             /\ NoFlags(Last(emitted')) = NoFlags(Last(emitted))

C24_ValuesCarriedUnchanged == []C24_Inv /\ [][C24_Step]_vars

\* Two readings, then a status line: the re-sent record is the second
\* reading (200, 27, 60) with the flags of the status line.
C24_Witness ==
    /\ Len(rx) = 3
    /\ rx[1] = SensorLine("100", "26", "55") /\ rx[2] = SensorLine("200", "27", "60") /\ IsStatus(rx[3])
    /\ Len(ConnEmitted) = 3
    /\ Values(ConnEmitted[3]) = [timestamp |-> 200, temperature |-> 27, humidity |-> 60]
    /\ NoFlags(ConnEmitted[3]) = NoFlags(ConnEmitted[2])
    /\ ConnEmitted[3] # ConnEmitted[2]

\* A RELAY_STATUS line with exactly two fields.
TwoFieldStatus(l) == Len(l) = 3 /\ l[1] = <<"RELAY_STATUS">>

\* The flag a field stands for: ON only as <name>:ON, exactly.
FlagOf(part, name) == part = <<name, "ON">>

BothOrNeither(m, p) == (m = None /\ p = None) \/ (IsSome(m) /\ IsSome(p))

\* C25: for a RELAY_STATUS line with exactly two fields each flag is ON iff
\* its token is exactly ON, and OFF for OFF, for lower-case on, for an empty
\* token and for a field with another name.  After such a line both flags
\* of the last-known status are known and are those; the last-known status
\* and every emitted record have both flags unknown or both known.
C25_Inv ==
    /\ \A m, p \in {"ON", "OFF", "on", ""} : parse_relay_status(StatusLine(m, p)) = Some(<<m = "ON", p = "ON">>)
    /\ parse_relay_status(<<<<"RELAY_STATUS">>, <<"fan", "ON">>, <<"pump", "ON">>>>) = Some(<<FALSE, TRUE>>)
    /\ BothOrNeither(relay_status.motor, relay_status.pump)
    /\ \A i \in 1..Len(emitted) : BothOrNeither(emitted[i].motor_status, emitted[i].pump_status)

C25_Step ==
    (LineRead /\ TwoFieldStatus(Last(rx')))
    => /\ relay_status'.motor = Some(FlagOf(Last(rx')[2], "motor"))
       /\ relay_status'.pump = Some(FlagOf(Last(rx')[3], "pump"))

C25_OnlyExactOnIsOn == []C25_Inv /\ [][C25_Step]_vars

\* A status line with a foreign field name and a lower-case token: both
\* flags become known, and both are off.
C25_Witness ==
    /\ rx # <<>>
    /\ Last(rx) = <<<<"RELAY_STATUS">>, <<"fan", "ON">>, <<"pump", "on">>>>
    /\ last_read = "line"
    /\ relay_status = [motor |-> Some(FALSE), pump |-> Some(FALSE)]

\* An empty token next to an exact ON.
C25_EmptyToken ==
    /\ rx # <<>>
    /\ Last(rx) = StatusLine("", "ON")
    /\ last_read = "line"
    /\ relay_status = [motor |-> Some(FALSE), pump |-> Some(TRUE)]

\* Positions of the well-formed sensor lines, and of the recognized lines,
\* among the lines read on the current connection.
SensorAt == {i \in 1..Len(rx) : rx[i] \in WellFormedSensorLines}

RecognizedAt == SensorAt \cup {i \in 1..Len(rx) : TwoFieldStatus(rx[i])}

\* Status lines whose most recent preceding recognized line is a sensor line.
StatusWhilePendingAt ==
    {i \in RecognizedAt \ SensorAt :
        LET before == {j \in RecognizedAt : j < i}
        IN  before # {} /\ MaxOf(before) \in SensorAt}

\* C29: emission count.  A line triggers at most one callback invocation;
\* on a connection the number of invocations is the number of well-formed
\* sensor lines plus the number of status lines that arrive while a reading
\* is pending, so no reading is emitted more than twice.
C29_Inv ==
    /\ Len(ConnEmitted) = Cardinality(SensorAt) + Cardinality(StatusWhilePendingAt)
    /\ Len(ConnEmitted) <= 2 * Cardinality(SensorAt)
    /\ IsSome(pending_sensor_data) <=> (RecognizedAt # {} /\ MaxOf(RecognizedAt) \in SensorAt)

C29_Step ==
    /\ Len(emitted') <= Len(emitted) + 1
    /\ Len(emitted') > Len(emitted) => LineRead

C29_EmissionCount == []C29_Inv /\ [][C29_Step]_vars

\* A reading followed by two status lines: two invocations, not three.
C29_Witness ==
    /\ Len(rx) = 3
    /\ rx[1] \in WellFormedSensorLines /\ TwoFieldStatus(rx[2]) /\ TwoFieldStatus(rx[3])
    /\ Len(ConnEmitted) = 2

\* The first connection has read one sensor line and emitted twice: the
\* reading as first sent, then the same reading with the refreshed status.
EmittedTwice ==
    /\ on_data = "upload"
    /\ conn_base = 0
    /\ Cardinality(SensorAt) = 1
    /\ Len(emitted) = 2

\* C28: uploads reach the store in emission order.  When a reading was
\* emitted twice and both uploads have been applied, the store holds the
\* point of the first emission and after it the point of the refreshed one.
C28_UploadsInEmissionOrder ==
    (EmittedTwice /\ Len(store) = 2)
    => store = <<SensorPoint(emitted[1]), SensorPoint(emitted[2])>>

\* Both uploads applied, the refreshed one first.
C28_Overtaken ==
    /\ EmittedTwice
    /\ store = <<SensorPoint(emitted[2]), SensorPoint(emitted[1])>>
    /\ SensorPoint(emitted[1]) # SensorPoint(emitted[2])

(***************************************************************************)
(* Properties of the CSV extractors.                                       *)
(***************************************************************************)
CommentLine(l) == l[1] = "#datatype"

HeaderLike(l) == \E i \in 1..Len(l) : l[i] \in {"_field", "_value"}

\* Positions of the non-comment lines that have a _field or a _value column.
HeaderLikeAt(body) == {i \in 1..Len(body) : ~CommentLine(body[i]) /\ HeaderLike(body[i])}

\* Position of the header: the first of them.
HeaderAt(body) == CHOOSE i \in HeaderLikeAt(body) : \A j \in HeaderLikeAt(body) : i <= j

\* Positions of the non-comment lines after the header.
RowsAt(body) == {i \in 1..Len(body) : i > HeaderAt(body) /\ ~CommentLine(body[i])}

InfluxDone == IsSome(extracted.influx)

DwsimDone == IsSome(extracted.dwsim)

\* C26: the extractors are total.  Each returns a record for every body;
\* for a body without a header (empty, comments only, or rows but no
\* header) and for a header followed by no row the record is all-absent.
NothingToExtract == HeaderLikeAt(csv_body) = {} \/ RowsAt(csv_body) = {}

C26_ExtractorIsTotal ==
    /\ DOMAIN parse_influx_csv(csv_body) = {"temp", "hum", "exhaust_fan_status", "pump_status"}
    /\ DOMAIN parse_dwsim_csv(csv_body) = {"temp"}
    /\ (InfluxDone /\ NothingToExtract)
       => Unwrap(extracted.influx) = [temp |-> None, hum |-> None, exhaust_fan_status |-> None, pump_status |-> None]
    /\ (DwsimDone /\ NothingToExtract)
       => Unwrap(extracted.dwsim) = [temp |-> None]

\* A comment line and a data row but no header: both results all-absent.
C26_Witness ==
    /\ csv_body = <<<<"#datatype", "string", "long", "double", "string">>, CsvRow("temperature", "26")>>
    /\ InfluxDone /\ DwsimDone
    /\ Unwrap(extracted.influx).temp = None
    /\ Unwrap(extracted.dwsim).temp = None

\* The empty body.
C26_EmptyBody == csv_body = <<>> /\ InfluxDone /\ DwsimDone /\ Unwrap(extracted.influx).temp = None

\* The column of the header that is named name (0 if there is none).
ColOf(h, name) == LET S == {i \in 1..Len(h) : h[i] = name} IN IF S = {} THEN 0 ELSE MaxOf(S)

FieldCol == ColOf(csv_body[HeaderAt(csv_body)], "_field")

ValueCol == ColOf(csv_body[HeaderAt(csv_body)], "_value")

\* The body has a header and the header has both columns.
Located == HeaderLikeAt(csv_body) # {} /\ FieldCol > 0 /\ ValueCol > 0

\* A row that names the field and has a numeric value, in the header's columns.
GoodFor(l, name) ==
    /\ Len(l) >= FieldCol /\ Len(l) >= ValueCol
    /\ Trim(l[FieldCol]) = name
    /\ Trim(l[ValueCol]) \in DOMAIN F64Table

ValueIn(l) == F64Table[Trim(l[ValueCol])]

GoodRowsAt(name) == {i \in RowsAt(csv_body) : GoodFor(csv_body[i], name)}

InfluxNames == {"temperature", "humidity", "exhaust_fan_status", "pump_status"}

DwsimNames == {"temperature_celsius"}

Slot(r, name) ==
    CASE name = "temperature" -> r.temp
      [] name = "humidity" -> r.hum
      [] name = "exhaust_fan_status" -> r.exhaust_fan_status
      [] name = "pump_status" -> r.pump_status
      [] name = "temperature_celsius" -> r.temp

\* C27: extraction is row-local.  With the two columns located by the
\* header's names, a recognized numeric row that no later such row of the
\* same field follows is in its slot whatever rows surround it, and a row
\* that is not a recognized numeric row (non-numeric value, other field
\* name, too few columns) can be taken out of the body without changing
\* the result.
C27_Influx ==
    (Located /\ InfluxDone)
    => /\ \A n \in InfluxNames : \A i \in GoodRowsAt(n) :
            (\A j \in GoodRowsAt(n) : j <= i) => Slot(Unwrap(extracted.influx), n) = Some(ValueIn(csv_body[i]))
       /\ \A i \in RowsAt(csv_body) :
            (\A n \in InfluxNames : ~GoodFor(csv_body[i], n))
            => parse_influx_csv(RemoveAt(csv_body, i)) = Unwrap(extracted.influx)

C27_Dwsim ==
    (Located /\ DwsimDone)
    => /\ \A n \in DwsimNames : \A i \in GoodRowsAt(n) :
            (\A j \in GoodRowsAt(n) : j <= i) => Slot(Unwrap(extracted.dwsim), n) = Some(ValueIn(csv_body[i]))
       /\ \A i \in RowsAt(csv_body) :
            (\A n \in DwsimNames : ~GoodFor(csv_body[i], n))
            => parse_dwsim_csv(RemoveAt(csv_body, i)) = Unwrap(extracted.dwsim)

C27_ExtractionIsRowLocal == C27_Influx /\ C27_Dwsim

\* A non-numeric temperature row, then a humidity row: the humidity is
\* extracted and the temperature stays absent.
C27_Witness ==
    /\ csv_body = <<CsvHeader, CsvRow("temperature", "abc"), CsvRow("humidity", "55")>>
    /\ InfluxDone
    /\ Unwrap(extracted.influx).hum = Some(55)
    /\ Unwrap(extracted.influx).temp = None

\* The field column before the value column: the row is read by name.
C27_ByName ==
    /\ csv_body = <<CsvHeaderFieldFirst, CsvRowFieldFirst("temperature", "26")>>
    /\ InfluxDone
    /\ Unwrap(extracted.influx).temp = Some(26)

\* C30: header handling.  The first non-comment line with a _field or a
\* _value column is the header, and the only one: each slot holds the value
\* of the last numeric row that names its field in that header's columns,
\* and is absent if there is no such row or if that header lacks one of the
\* two columns; a later header line has no effect of its own and can be
\* taken out of the body without changing the result.
ExpectedSlot(name) ==
    IF Located /\ GoodRowsAt(name) # {} THEN Some(ValueIn(csv_body[MaxOf(GoodRowsAt(name))])) ELSE None

LaterHeadersAt == {i \in HeaderLikeAt(csv_body) : i # HeaderAt(csv_body) /\ csv_body[i] \in CsvHeaders}

C30_HeaderHandling ==
    HeaderLikeAt(csv_body) # {}
    => /\ InfluxDone
          => /\ \A n \in InfluxNames : Slot(Unwrap(extracted.influx), n) = ExpectedSlot(n)
             /\ \A i \in LaterHeadersAt : parse_influx_csv(RemoveAt(csv_body, i)) = Unwrap(extracted.influx)
       /\ DwsimDone
          => /\ \A n \in DwsimNames : Slot(Unwrap(extracted.dwsim), n) = ExpectedSlot(n)
             /\ \A i \in LaterHeadersAt : parse_dwsim_csv(RemoveAt(csv_body, i)) = Unwrap(extracted.dwsim)

\* A second header with the columns the other way round, then a row laid
\* out for it: the row is read in the first header's columns, names no
\* field there, and nothing is extracted.
C30_Witness ==
    /\ csv_body = <<CsvHeader, CsvHeaderFieldFirst, CsvRowFieldFirst("temperature", "26")>>
    /\ InfluxDone
    /\ Unwrap(extracted.influx) = LastRowDefault

\* Two numeric rows for the same field: the later value is kept.
C30_LastWins ==
    /\ csv_body = <<CsvHeader, CsvRow("temperature", "22"), CsvRow("temperature", "26")>>
    /\ InfluxDone
    /\ Unwrap(extracted.influx).temp = Some(26)

\* A header without the value column: the row after it yields nothing.
C30_HeaderLacksColumn ==
    /\ csv_body = <<CsvHeaderNoValue, CsvRow("temperature", "26")>>
    /\ InfluxDone
    /\ Unwrap(extracted.influx) = LastRowDefault

(***************************************************************************)
(* Properties of the sensor node firmware.                                 *)
(***************************************************************************)
Answered204(a) == a.io.fails = "none" /\ a.io.status = 204

SendReturned == IsSome(send_result)

\* The delays made once k attempts have failed and been followed by a wait.
DelaysAfter(k) == [i \in 1..k |-> 2000 * i]

\* C31: send_to_influxdb makes at most 3 attempts and none after one that
\* was answered with status 204; it returns Ok exactly when its last
\* attempt was answered 204, and an error exactly when three attempts have
\* failed, that error being the third attempt's; the waits are 2 s after the
\* first failure and 4 s after the second, none after the last attempt; the
\* "Maximum retry attempts exceeded" error is never returned.
C31_UploadRetry ==
    LET n == Len(attempts) IN
    /\ n <= 3
    /\ \A i \in 1..(n - 1) : ~Answered204(attempts[i])
    /\ (send_result = Some(UploadOk)) <=> (n >= 1 /\ Answered204(attempts[n]))
    /\ (SendReturned /\ ~Unwrap(send_result).ok)
          <=> (n = 3 /\ \A i \in 1..3 : ~Answered204(attempts[i]))
    /\ (SendReturned /\ ~Unwrap(send_result).ok) => Unwrap(send_result) = attempts[3].result
    /\ delays = DelaysAfter(IF SendReturned THEN n - 1 ELSE n)
    /\ send_result # Some(UploadErr("Maximum retry attempts exceeded", 0))

\* Three attempts failed in different ways, the third error was returned
\* after waits of 2 s and 4 s.
C31_Witness ==
    /\ Len(attempts) = 3
    /\ SendReturned
    /\ ~Unwrap(send_result).ok
    /\ attempts[1].result # attempts[3].result
    /\ attempts[2].io.status = 200
    /\ delays = <<2000, 4000>>

\* A response of at least 7 bytes whose CRC bytes match its first five.
GoodResponse(ev) ==
    /\ ev.op = "read"
    /\ ev.ok
    /\ Len(ev.data) >= 7
    /\ ev.data[6] + 256 * ev.data[7] = calculate_crc16(SubSeq(ev.data, 1, 5))

RegisterOf(ev) == 256 * ev.data[4] + ev.data[5]

\* Positions in cycle_log of the reads that answer a transmitted request.
ReadsAfter(request) ==
    {j \in 2..Len(cycle_log) : cycle_log[j].op = "read" /\ cycle_log[j - 1] = WriteEvent(request, TRUE)}

UploadsAt == {i \in 1..Len(cycle_log) : cycle_log[i].op = "upload"}

\* Tenths of a degree / of a percent, strictly inside (-50, 100) and (0, 100).
ValidReading(temperature, humidity) ==
    /\ -500 < temperature /\ temperature < 1000
    /\ 0 < humidity /\ humidity < 1000

C32_CycleSafety ==
    /\ Cardinality(UploadsAt) <= 1
    /\ \A i \in UploadsAt :
        \E t \in ReadsAfter(temp_request), h \in ReadsAfter(hum_request) \cup ReadsAfter(hum_request2) :
            /\ t < i /\ h < i
            /\ GoodResponse(cycle_log[t])
            /\ GoodResponse(cycle_log[h])
            /\ cycle_log[i].data = <<RegisterOf(cycle_log[t]) - 12, RegisterOf(cycle_log[h]) - 65>>
            /\ ValidReading(cycle_log[i].data[1], cycle_log[i].data[2])
    /\ \A k \in 1..Len(cycle_log) :
        (cycle_log[k].op = "write" /\ cycle_log[k].data = hum_request2)
            => \E p \in ReadsAfter(hum_request) : p < k /\ ~GoodResponse(cycle_log[p])
    /\ \A k \in 1..Len(cycle_log) :
        (cycle_log[k].op = "write" /\ ~cycle_log[k].ok) => k = Len(cycle_log)

InCycle == dpc \in {"temp_rx", "hum_tx", "hum_rx", "hum2_tx", "hum2_rx", "match", "for_attempt", "try_upload", "send_returned", "cycle_delay"}

CycleStart == dpc = "temp_tx" /\ cycle_log = <<>>

\* C32: in one reading cycle send_sensor_data is called at most once, and
\* only with the converted values of a temperature response and a humidity
\* response that each have at least 7 bytes and a matching CRC, the values
\* being in range; the fallback register is asked only after the primary
\* humidity read failed; nothing is read, sent or uploaded after a failed
\* transmit; and from every point of a cycle the next cycle starts.
C32_ReadingCycle == [](C32_CycleSafety) /\ (InCycle ~> CycleStart)

\* A cycle that uploaded with the humidity of the fallback register after a
\* full-length primary response whose CRC did not match, and whose three
\* upload attempts all failed.
C32_Witness ==
    /\ dpc = "cycle_delay"
    /\ Len(cycle_log) = 7
    /\ cycle_log[7].op = "upload"
    /\ Len(cycle_log[4].data) >= 7
    /\ ~GoodResponse(cycle_log[4])
    /\ SendReturned
    /\ ~Unwrap(send_result).ok

\* C33: setup_wifi checks the connection at most 60 times.
C33_AtMostSixtyChecks == wifi_checks <= 60

====
